---- MODULE Spec2Model ----
(***************************************************************************)
(* Model of claudehist: the PreToolUse snapshot hook (hook_snapshot.py)    *)
(* and the log replay that reconstructs before/after file states for one  *)
(* prompt (review_gui.py).                                                 *)
(*                                                                         *)
(* Strings are sequences of one-character strings, so that strip,          *)
(* startswith, lstrip and str.replace are computed and not assumed.        *)
(* A Python dict is a function whose DOMAIN is its key set.                *)
(***************************************************************************)
EXTENDS Integers, Sequences, FiniteSets, TLC

(* ---------------------------- bounds ----------------------------------- *)
\* longest session log (raw lines of the .jsonl file) that is explored
MaxLines == 4
\* prompt_index arguments range over -MaxIdx .. MaxIdx
MaxIdx == 2
\* most tool calls, of all sessions together, that the hook is started for
MaxCalls == 3
\* longest file content, over the letters a and b, that an Edit is applied to
MaxStr == 3
\* most Edit records in a log of the Edit runs
MaxEdits == 2
\* longest log of the runs over the kinds of user record
MaxRecords == 3
\* most pairs of temporary trees that open_diff creates in a run
MaxOpens == 2
\* most runs of setup.py in a row
MaxRuns == 3

(* ------------------------- string helpers ------------------------------ *)
EmptyMap == [x \in {} |-> <<>>]

\* dict.get(key, default)
Get(d, k, default) == IF k \in DOMAIN d THEN d[k] ELSE default

\* d[k] = v
Put(d, k, v) == [x \in DOMAIN d \cup {k} |-> IF x = k THEN v ELSE d[x]]

\* s[n:] for 0 <= n, 0-based
Drop(s, n) == IF n >= Len(s) THEN <<>> ELSE SubSeq(s, n + 1, Len(s))

\* str.startswith
StartsWith(s, p) == Len(p) <= Len(s) /\ SubSeq(s, 1, Len(p)) = p

Whitespace == {" ", "\t", "\n"}

RECURSIVE LStripWs(_)
LStripWs(s) == IF s # <<>> /\ Head(s) \in Whitespace THEN LStripWs(Tail(s)) ELSE s

RECURSIVE RStripWs(_)
RStripWs(s) ==
    IF s # <<>> /\ s[Len(s)] \in Whitespace THEN RStripWs(SubSeq(s, 1, Len(s) - 1)) ELSE s

\* str.strip()
Strip(s) == RStripWs(LStripWs(s))

\* str.lstrip("/")
RECURSIVE LStripSlash(_)
LStripSlash(s) == IF s # <<>> /\ Head(s) = "/" THEN LStripSlash(Tail(s)) ELSE s

\* os.path.isabs
IsAbs(p) == p # <<>> /\ Head(p) = "/"

\* mutant: the scan resumes one character after the start of a match
RECURSIVE Replace_Overlapping(_, _, _, _)
Replace_Overlapping(s, old, new, count) ==
    IF count = 0 \/ Len(s) < Len(old) THEN s
    ELSE IF StartsWith(s, old)
         THEN new \o Replace_Overlapping(Tail(s), old, new, count - 1)
         ELSE <<Head(s)>> \o Replace_Overlapping(Tail(s), old, new, count)

\* str.replace(old, new, count) for non-empty old; count < 0 means no limit.
\* Scans left to right; a match is consumed whole, so matches never overlap.
RECURSIVE Replace(_, _, _, _)
Replace(s, old, new, count) ==
    IF count = 0 \/ Len(s) < Len(old) THEN s
    ELSE IF StartsWith(s, old)
         THEN new \o Replace(Drop(s, Len(old)), old, new, count - 1)
         ELSE <<Head(s)>> \o Replace(Tail(s), old, new, count)

\* " ".join(parts)
RECURSIVE JoinSpace(_)
JoinSpace(parts) ==
    IF parts = <<>> THEN <<>>
    ELSE IF Len(parts) = 1 THEN parts[1]
    ELSE parts[1] \o <<" ">> \o JoinSpace(Tail(parts))

(* --------------------------- log records ------------------------------- *)
\* A content block of a message.  Absent keys hold the default that the
\* code's .get(key, default) would supply.
NoInput == [file_path |-> <<>>, content |-> <<>>, old_string |-> <<>>,
            new_string |-> <<>>, replace_all |-> FALSE]

TextBlock(t) == [type |-> "text", text |-> t, name |-> "", input |-> NoInput]

ToolUse(n, inp) == [type |-> "tool_use", text |-> <<>>, name |-> n, input |-> inp]

WriteInput(fp, c) == [NoInput EXCEPT !.file_path = fp, !.content = c]

EditInput(fp, old, new, all) ==
    [NoInput EXCEPT !.file_path = fp, !.old_string = old, !.new_string = new,
                    !.replace_all = all]

\* message.content is a string or a list of blocks
StrContent(s) == [kind |-> "str", str |-> s, list |-> <<>>]

ListContent(bs) == [kind |-> "list", str |-> <<>>, list |-> bs]

\* a parsed line; py is the Python type json.loads gave it
UserLine(c) == [py |-> "dict", type |-> "user", message |-> [content |-> c]]

AssistantLine(c) == [py |-> "dict", type |-> "assistant", message |-> [content |-> c]]

\* a raw line of the file: a JSON object, a JSON value that is not an object,
\* or text json.loads rejects
JsonLine(obj) == [json |-> "object", obj |-> obj]

ValueLine == [json |-> "value",
              obj |-> [py |-> "int", type |-> "", message |-> [content |-> StrContent(<<>>)]]]

BadLine == [json |-> "invalid", obj |-> UserLine(StrContent(<<>>))]

(* ------------------------- review_gui.py ------------------------------- *)
_NOISE_PATTERNS ==
    { <<"[","R","e","q","u","e","s","t"," ","i","n","t","e","r","r","u","p","t","e","d">>,
      <<"<","c","o","m","m","a","n","d","-","m","e","s","s","a","g","e",">">>,
      <<"<","c","o","m","m","a","n","d","-","n","a","m","e",">">>,
      <<"<","t","a","s","k","-","n","o","t","i","f","i","c","a","t","i","o","n",">">>,
      <<"<","s","y","s","t","e","m","-","r","e","m","i","n","d","e","r",">">> }

RECURSIVE TextParts(_)
TextParts(blocks) ==
    IF blocks = <<>> THEN <<>>
    ELSE (IF Head(blocks).type = "text" THEN <<Head(blocks).text>> ELSE <<>>)
         \o TextParts(Tail(blocks))

_extract_user_text(msg) ==
    IF msg.content.kind = "str" THEN msg.content.str
    ELSE IF msg.content.kind = "list" THEN JoinSpace(TextParts(msg.content.list))
    ELSE <<>>

\* mutant: the prefixes are looked for in the text as it is, not stripped
_is_noise_NoStrip(text) ==
    LET stripped == Strip(text)
    IN  \/ stripped = <<>>
        \/ \E pattern \in _NOISE_PATTERNS : StartsWith(text, pattern)

_is_noise(text) ==
    LET stripped == Strip(text)
    IN  \/ stripped = <<>>
        \/ \E pattern \in _NOISE_PATTERNS : StartsWith(stripped, pattern)

\* mutant: the first line json.loads rejects ends the read
RECURSIVE _read_jsonl_StopAtBadLine(_)
_read_jsonl_StopAtBadLine(raw) ==
    IF raw = <<>> \/ Head(raw).json = "invalid" THEN <<>>
    ELSE <<Head(raw).obj>> \o _read_jsonl_StopAtBadLine(Tail(raw))

\* the loop over the lines of the opened file: what json.loads returns for
\* each line it accepts, in line order
RECURSIVE _read_jsonl(_)
_read_jsonl(raw) ==
    IF raw = <<>> THEN <<>>
    ELSE (IF Head(raw).json # "invalid" THEN <<Head(raw).obj>> ELSE <<>>)
         \o _read_jsonl(Tail(raw))

\* _read_jsonl on a path: open may raise OSError, and then lines stays []
ReadFile(openable, raw) == IF openable THEN _read_jsonl(raw) ELSE <<>>

\* obj.get on the lines in turn: a line that is not a dict has no .get
GetRaises(lines) == \E i \in 1..Len(lines) : lines[i].py # "dict"

\* whether _parse_jsonl_prompts raises: it returns on an empty list first
ParseRaises(raw) == _read_jsonl(raw) # <<>> /\ GetRaises(_read_jsonl(raw))

\* mutant: every user record is a prompt, noise included
RECURSIVE FindPromptsFrom_NoNoiseFilter(_, _)
FindPromptsFrom_NoNoiseFilter(lines, i) ==
    IF i >= Len(lines) THEN <<>>
    ELSE LET obj == lines[i + 1]
             text == _extract_user_text(obj.message)
         IN  (IF obj.type = "user"
              THEN << [line_i |-> i, text |-> text] >> ELSE <<>>)
             \o FindPromptsFrom_NoNoiseFilter(lines, i + 1)

\* (line_index, text) of every meaningful user prompt; indices are 0-based
RECURSIVE FindPromptsFrom(_, _)
FindPromptsFrom(lines, i) ==
    IF i >= Len(lines) THEN <<>>
    ELSE LET obj == lines[i + 1]
             text == _extract_user_text(obj.message)
         IN  (IF obj.type = "user" /\ ~_is_noise(text)
              THEN << [line_i |-> i, text |-> text] >> ELSE <<>>)
             \o FindPromptsFrom(lines, i + 1)

_find_meaningful_prompts(lines) == FindPromptsFrom(lines, 0)

RECURSIVE BlockCalls(_, _)
BlockCalls(blocks, i) ==
    IF blocks = <<>> THEN <<>>
    ELSE LET block == Head(blocks)
         IN  (IF block.type = "tool_use" /\ block.name \in {"Write", "Edit"}
              THEN << [tc_line |-> i, tc_name |-> block.name, tc_input |-> block.input] >>
              ELSE <<>>)
             \o BlockCalls(Tail(blocks), i)

\* (line_index, tool_name, tool_input) of every Write/Edit call
RECURSIVE ExtractCallsFrom(_, _)
ExtractCallsFrom(lines, i) ==
    IF i >= Len(lines) THEN <<>>
    ELSE LET obj == lines[i + 1]
         IN  (IF obj.type = "assistant" /\ obj.message.content.kind = "list"
              THEN BlockCalls(obj.message.content.list, i) ELSE <<>>)
             \o ExtractCallsFrom(lines, i + 1)

_extract_tool_calls(lines) == ExtractCallsFrom(lines, 0)

\* list[i] with Python's index rule: 0-based, negative counts from the end
PyIndexOK(seq, i) == -Len(seq) <= i /\ i < Len(seq)

PyIndex(seq, i) == IF i >= 0 THEN seq[i + 1] ELSE seq[Len(seq) + i + 1]

\* mutant: the prompt is taken to run to the end of the log
NextLine_AlwaysEnd(lines, meaningful, idx) == Len(lines)

\* [m[0] for m in meaningful][idx + 1] if idx + 1 < len(meaningful) else len(lines)
NextLine(lines, meaningful, idx) ==
    IF idx + 1 < Len(meaningful) THEN PyIndex(meaningful, idx + 1).line_i ELSE Len(lines)

\* mutant: a call without file_path is attributed too
RECURSIVE FilesEdited_NoPathTest(_, _, _, _)
FilesEdited_NoPathTest(tool_calls, line_i, next_line, files_edited) ==
    IF tool_calls = <<>> THEN files_edited
    ELSE LET tc == Head(tool_calls)
             fp == tc.tc_input.file_path
             hit == /\ line_i <= tc.tc_line /\ tc.tc_line < next_line
                    /\ \A n \in 1..Len(files_edited) : files_edited[n] # fp
         IN  FilesEdited_NoPathTest(Tail(tool_calls), line_i, next_line,
                         IF hit THEN Append(files_edited, fp) ELSE files_edited)

\* files_edited of one prompt: paths of the calls with line_i <= tc_line < next_line
RECURSIVE FilesEdited(_, _, _, _)
FilesEdited(tool_calls, line_i, next_line, files_edited) ==
    IF tool_calls = <<>> THEN files_edited
    ELSE LET tc == Head(tool_calls)
             fp == tc.tc_input.file_path
             hit == /\ line_i <= tc.tc_line /\ tc.tc_line < next_line
                    /\ fp # <<>>
                    /\ \A n \in 1..Len(files_edited) : files_edited[n] # fp
         IN  FilesEdited(Tail(tool_calls), line_i, next_line,
                         IF hit THEN Append(files_edited, fp) ELSE files_edited)

\* one entry per meaningful prompt, enumerate(meaningful) order
_parse_jsonl_prompts(raw) ==
    LET lines == _read_jsonl(raw)
        meaningful == _find_meaningful_prompts(lines)
        tool_calls == _extract_tool_calls(lines)
    IN  IF lines = <<>> \/ meaningful = <<>> THEN <<>>
        ELSE [n \in 1..Len(meaningful) |->
                LET idx == n - 1
                    line_i == meaningful[n].line_i
                    next_line == IF idx + 1 < Len(meaningful)
                                 THEN meaningful[idx + 2].line_i ELSE Len(lines)
                IN  [prompt_index |-> idx,
                     prompt_text  |-> meaningful[n].text,
                     line_i       |-> line_i,
                     next_line    |-> next_line,
                     files_edited |-> FilesEdited(tool_calls, line_i, next_line, <<>>)]]

\* file_states after the walk of SNAPSHOTS_DIR/<session>/files: "/" + rel -> content
LoadSnapshots(files) ==
    [p \in { <<"/">> \o rel : rel \in DOMAIN files } |-> files[Drop(p, 1)]]

\* mutant: the "before" state is captured at every touch inside the window
CaptureBefore_EveryTouch(st, tc, target_line, next_line) ==
    LET fp == tc.tc_input.file_path
    IN  IF target_line <= tc.tc_line /\ tc.tc_line < next_line
        THEN [st EXCEPT !.before_files = Put(@, fp, Get(st.file_states, fp, <<>>)),
                        !.files_in_prompt = @ \cup {fp}]
        ELSE st

\* mutant: every call before next_line counts as inside the target prompt
CaptureBefore_NoLowerBound(st, tc, target_line, next_line) ==
    LET fp == tc.tc_input.file_path
    IN  IF tc.tc_line < next_line /\ fp \notin st.files_in_prompt
        THEN [st EXCEPT !.before_files = Put(@, fp, Get(st.file_states, fp, <<>>)),
                        !.files_in_prompt = @ \cup {fp}]
        ELSE st

\* first part of the loop body: capture the "before" state on first touch
CaptureBefore(st, tc, target_line, next_line) ==
    LET fp == tc.tc_input.file_path
    IN  IF target_line <= tc.tc_line /\ tc.tc_line < next_line
           /\ fp \notin st.files_in_prompt
        THEN [st EXCEPT !.before_files = Put(@, fp, Get(st.file_states, fp, <<>>)),
                        !.files_in_prompt = @ \cup {fp}]
        ELSE st

\* mutant: an Edit with an empty old_string puts new_string in front
ApplyCall_EmptyOldInserts(file_states, tc) ==
    LET fp == tc.tc_input.file_path
        old == tc.tc_input.old_string
        new == tc.tc_input.new_string
    IN  IF tc.tc_name = "Write" THEN Put(file_states, fp, tc.tc_input.content)
        ELSE IF tc.tc_name = "Edit" /\ fp \in DOMAIN file_states /\ old # <<>>
             THEN Put(file_states, fp,
                      Replace(file_states[fp], old, new,
                              IF tc.tc_input.replace_all THEN -1 ELSE 1))
        ELSE IF tc.tc_name = "Edit" /\ fp \in DOMAIN file_states
             THEN Put(file_states, fp, new \o file_states[fp])
        ELSE file_states

\* mutant: an Edit of a file without a state gives it the state new_string
ApplyCall_EditDefines(file_states, tc) ==
    LET fp == tc.tc_input.file_path
        old == tc.tc_input.old_string
        new == tc.tc_input.new_string
    IN  IF tc.tc_name = "Write" THEN Put(file_states, fp, tc.tc_input.content)
        ELSE IF tc.tc_name = "Edit" /\ fp \in DOMAIN file_states /\ old # <<>>
             THEN Put(file_states, fp,
                      Replace(file_states[fp], old, new,
                              IF tc.tc_input.replace_all THEN -1 ELSE 1))
        ELSE IF tc.tc_name = "Edit" /\ fp \notin DOMAIN file_states
             THEN Put(file_states, fp, new)
        ELSE file_states

\* mutant: an Edit replaces new_string by old_string
ApplyCall_EditSwapped(file_states, tc) ==
    LET fp == tc.tc_input.file_path
        old == tc.tc_input.new_string
        new == tc.tc_input.old_string
    IN  IF tc.tc_name = "Write" THEN Put(file_states, fp, tc.tc_input.content)
        ELSE IF tc.tc_name = "Edit" /\ fp \in DOMAIN file_states /\ old # <<>>
             THEN Put(file_states, fp,
                      Replace(file_states[fp], old, new,
                              IF tc.tc_input.replace_all THEN -1 ELSE 1))
        ELSE file_states

\* second part of the loop body: apply the Write/Edit to file_states
ApplyCall(file_states, tc) ==
    LET fp == tc.tc_input.file_path
        old == tc.tc_input.old_string
        new == tc.tc_input.new_string
    IN  IF tc.tc_name = "Write" THEN Put(file_states, fp, tc.tc_input.content)
        ELSE IF tc.tc_name = "Edit" /\ fp \in DOMAIN file_states /\ old # <<>>
             THEN Put(file_states, fp,
                      Replace(file_states[fp], old, new,
                              IF tc.tc_input.replace_all THEN -1 ELSE 1))
        ELSE file_states

\* the test that ends the walk; it is made after the call has been applied
PastTarget(tc, next_line) == tc.tc_line >= next_line

\* for tc_line, tc_name, tc_input in tool_calls: ...
RECURSIVE WalkToolCalls(_, _, _, _, _)
WalkToolCalls(tool_calls, j, target_line, next_line, st) ==
    IF j > Len(tool_calls) THEN st
    ELSE LET tc == tool_calls[j]
         IN  IF tc.tc_input.file_path = <<>>
             THEN WalkToolCalls(tool_calls, j + 1, target_line, next_line, st)
             ELSE LET st1 == CaptureBefore(st, tc, target_line, next_line)
                      st2 == [st1 EXCEPT !.file_states = ApplyCall(@, tc)]
                  IN  IF PastTarget(tc, next_line) THEN st2
                      ELSE WalkToolCalls(tool_calls, j + 1, target_line, next_line, st2)

\* target_line and next_line of the requested prompt
ReconWindow(lines, meaningful, prompt_index) ==
    [target_line |-> PyIndex(meaningful, prompt_index).line_i,
     next_line |-> NextLine(lines, meaningful, prompt_index)]

\* returns (before_files, after_files), or raises IndexError
_reconstruct_prompt_diff(raw, files, prompt_index) ==
    LET lines == _read_jsonl(raw)
        meaningful == _find_meaningful_prompts(lines)
        tool_calls == _extract_tool_calls(lines)
    IN  IF GetRaises(lines)
        THEN [outcome |-> "AttributeError", before_files |-> EmptyMap, after_files |-> EmptyMap]
        ELSE IF prompt_index >= Len(meaningful)
        THEN [outcome |-> "ok", before_files |-> EmptyMap, after_files |-> EmptyMap]
        ELSE IF ~PyIndexOK(meaningful, prompt_index)
        THEN [outcome |-> "IndexError", before_files |-> EmptyMap, after_files |-> EmptyMap]
        ELSE LET target_line == ReconWindow(lines, meaningful, prompt_index).target_line
                 next_line == ReconWindow(lines, meaningful, prompt_index).next_line
                 st == WalkToolCalls(tool_calls, 1, target_line, next_line,
                                     [file_states |-> LoadSnapshots(files),
                                      before_files |-> EmptyMap,
                                      files_in_prompt |-> {}])
             IN  [outcome |-> "ok",
                  before_files |-> st.before_files,
                  after_files |-> [fp \in st.files_in_prompt |->
                                      Get(st.file_states, fp, <<>>)]]

(* ----------------------------- state ------------------------------------ *)
VARIABLES
    jsonl,      \* session -> raw lines of its log PROJECTS_DIR/.../<session>.jsonl
    snapshots,  \* session -> (relative path -> content): SNAPSHOTS_DIR/<s>/files
    meta,       \* session -> meta.json of the session, where it exists
    marker,     \* mtime of SNAPSHOTS_DIR/.last_cleanup, NoMarker if absent
    disk,       \* absolute path -> content, for the files that exist
    now,        \* time.time()
    hook,       \* process -> the hook invocation it runs
    result,     \* what the last call of the review GUI returned
    orig        \* history: (session, path) -> the file as it was when the
                \* session's first Write/Edit of the path was announced

vars == <<jsonl, snapshots, meta, marker, disk, now, hook, result, orig>>

\* the session whose log is reviewed: basename(jsonl_path) without ".jsonl"
SessionId == "s1"

Sessions == {"s1", "s2"}

Procs == {1, 2}

NoMarker == -1

NoResult == [kind |-> "none"]

\* a hook process: where it is, what it read from stdin ("object": a JSON
\* object with the fields below), and the exception that ended main, if any
Idle == [pc |-> "idle", session_id |-> "", tool_name |-> "", tool_input |-> NoInput,
         stdin |-> "object", raised |-> ""]

(* --------------------- inputs of the replay runs ----------------------- *)
PathA == <<"/", "a">>

PathB == <<"/", "b">>

Prompt(t) == JsonLine(UserLine(StrContent(t)))

Calls(bs) == JsonLine(AssistantLine(ListContent(bs)))

\* the records a session log is built from
ReplayLines ==
    { Prompt(<<"h", "i">>),
      Prompt(<<" ">>),
      Calls(<< ToolUse("Write", WriteInput(PathA, <<"x">>)) >>),
      Calls(<< ToolUse("Edit", EditInput(PathA, <<"x">>, <<"y", "x">>, FALSE)) >>),
      Calls(<< ToolUse("Write", WriteInput(PathB, <<"y">>)),
               ToolUse("Edit", EditInput(PathA, <<"x">>, <<"z">>, TRUE)) >>),
      Calls(<< ToolUse("Write", WriteInput(<<>>, <<"x">>)) >>),
      BadLine }

\* the checkpoint sets a replay may find for the session
ReplayCheckpoints ==
    { EmptyMap,
      [rel \in {<<"a">>} |-> <<"x", "x">>],
      [rel \in {<<"a">>, <<"b">>} |-> <<"z">>] }

(* ------------------- inputs of the end-to-end scenario ----------------- *)
ScenarioLen == 5

PathAPy == <<"/", "a", ".", "p", "y">>

PathBPy == <<"/", "b", ".", "p", "y">>

V1 == <<"v", "1">>

V2 == <<"v", "2">>

New == <<"n", "e", "w">>

Prompt0 == Prompt(<<"a", "d", "d", " ", "f", "u", "n", "c", "t", "i", "o", "n">>)

Prompt1 == Prompt(<<"r", "e", "n", "a", "m", "e", " ", "v", "a", "r">>)

WriteA == Calls(<< ToolUse("Write", WriteInput(PathAPy, V1)) >>)

EditA == Calls(<< ToolUse("Edit", EditInput(PathAPy, V1, V2, FALSE)) >>)

WriteB == Calls(<< ToolUse("Write", WriteInput(PathBPy, New)) >>)

ScenarioLines == {Prompt0, Prompt1, WriteA, EditA, WriteB}

ScenarioLog == <<Prompt0, WriteA, Prompt1, EditA, WriteB>>

(* ---------------------------- actions ---------------------------------- *)
\* the session appends one record to its log
AppendLine(S, max) ==
    /\ Len(jsonl[SessionId]) < max
    /\ \E r \in S : jsonl' = [jsonl EXCEPT ![SessionId] = Append(@, r)]
    /\ result' = NoResult
    /\ UNCHANGED <<snapshots, meta, marker, disk, now, hook, orig>>

\* load_prompts: the GUI lists the prompts of the session
LoadPrompts ==
    /\ result' = IF ParseRaises(jsonl[SessionId])
                 THEN [kind |-> "prompts", outcome |-> "AttributeError", prompts |-> <<>>]
                 ELSE [kind |-> "prompts", outcome |-> "ok",
                       prompts |-> _parse_jsonl_prompts(jsonl[SessionId])]
    /\ result' # result
    /\ UNCHANGED <<jsonl, snapshots, meta, marker, disk, now, hook, orig>>

\* the GUI asks for the diff of one prompt
Reconstruct ==
    /\ \E prompt_index \in -MaxIdx..MaxIdx :
          result' = [kind |-> "diff", prompt_index |-> prompt_index,
                     ret |-> _reconstruct_prompt_diff(jsonl[SessionId],
                                                      snapshots[SessionId],
                                                      prompt_index)]
    /\ result' # result
    /\ UNCHANGED <<jsonl, snapshots, meta, marker, disk, now, hook, orig>>

\* the GUI reads the log of the session, which may not open
ReadLog ==
    /\ \E openable \in BOOLEAN :
          result' = [kind |-> "lines", openable |-> openable,
                     lines |-> ReadFile(openable, jsonl[SessionId])]
    /\ result' # result
    /\ UNCHANGED <<jsonl, snapshots, meta, marker, disk, now, hook, orig>>

InitCommon ==
    /\ jsonl = [s \in Sessions |-> <<>>]
    /\ orig = EmptyMap
    /\ meta = EmptyMap
    /\ marker = NoMarker
    /\ now = 0
    /\ hook = [pr \in Procs |-> Idle]
    /\ result = NoResult

\* replay over an arbitrary checkpoint set
Init ==
    /\ InitCommon
    /\ disk = EmptyMap
    /\ \E cp \in ReplayCheckpoints :
          snapshots = [s \in Sessions |-> IF s = SessionId THEN cp ELSE EmptyMap]

Next ==
    \/ AppendLine(ReplayLines, MaxLines)
    \/ LoadPrompts
    \/ Reconstruct

Spec == Init /\ [][Next]_vars

(* ------------------- vocabulary of the properties ---------------------- *)
Lines == _read_jsonl(jsonl[SessionId])

Meaningful == _find_meaningful_prompts(Lines)

ToolCalls == _extract_tool_calls(Lines)

Checkpoints == LoadSnapshots(snapshots[SessionId])

\* a record that anchors a window: user-typed, text not noise
IsGenuine(obj) == obj.type = "user" /\ ~_is_noise(_extract_user_text(obj.message))

\* log positions (0-based) of the genuine prompts
Anchors == { i \in 0..(Len(Lines) - 1) : IsGenuine(Lines[i + 1]) }

NumPrompts == Cardinality(Anchors)

\* the k-th anchor in log order, k = 0, 1, ...
AnchorAt(k) == CHOOSE i \in Anchors : Cardinality({ j \in Anchors : j < i }) = k

\* window k is [WinStart(k), WinEnd(k))
WinStart(k) == AnchorAt(k)

WinEnd(k) == IF k + 1 < NumPrompts THEN AnchorAt(k + 1) ELSE Len(Lines)

InWindow(k, pos) == WinStart(k) <= pos /\ pos < WinEnd(k)

IsDiff == result.kind = "diff"

\* the last call was a reconstruction of a window that exists
ExistingWindow == IsDiff /\ result.prompt_index \in 0..(NumPrompts - 1)

\* indices into ToolCalls of the mutations of path p inside window k
TouchesIn(k, p) ==
    { j \in 1..Len(ToolCalls) :
        /\ ToolCalls[j].tc_input.file_path = p
        /\ InWindow(k, ToolCalls[j].tc_line) }

\* the paths mutated inside window k; a call without file_path names no path
TouchedPaths(k) ==
    { ToolCalls[j].tc_input.file_path :
        j \in { n \in 1..Len(ToolCalls) :
                  /\ ToolCalls[n].tc_input.file_path # <<>>
                  /\ InWindow(k, ToolCalls[n].tc_line) } }

\* file states after replaying the given calls, in order, on fs
RECURSIVE ReplayAll(_, _)
ReplayAll(calls, fs) ==
    IF calls = <<>> THEN fs
    ELSE ReplayAll(Tail(calls),
                   IF Head(calls).tc_input.file_path = <<>> THEN fs
                   ELSE ApplyCall(fs, Head(calls)))

\* the calls at log positions < pos
CallsBefore(pos) == SelectSeq(ToolCalls, LAMBDA tc : tc.tc_line < pos)

\* content of p after replaying the calls at positions < pos on the checkpoints
StateAt(pos, p) == Get(ReplayAll(CallsBefore(pos), Checkpoints), p, <<>>)

\* content of p just before its first mutation inside window k
StateBeforeFirstTouch(k, p) ==
    LET first == CHOOSE j \in TouchesIn(k, p) : \A n \in TouchesIn(k, p) : j <= n
    IN  Get(ReplayAll(SubSeq(ToolCalls, 1, first - 1), Checkpoints), p, <<>>)

(* ------------------------------ C1 ------------------------------------- *)
\* C1: for an existing window and every path touched in it, after[p] is the
\* file state obtained by replaying exactly the mutations at log positions
\* below endIndex; no later mutation influences it.
C1_AfterIsReplayUpToEnd ==
    ExistingWindow =>
        LET k == result.prompt_index
        IN  \A p \in TouchedPaths(k) :
               /\ p \in DOMAIN result.ret.after_files
               /\ result.ret.after_files[p] = StateAt(WinEnd(k), p)

(* ------------------------------ C2 ------------------------------------- *)
\* some mutation of p lies at a log position before window k
MutatedEarlier(k, p) ==
    \E j \in 1..Len(ToolCalls) :
        /\ ToolCalls[j].tc_input.file_path = p
        /\ ToolCalls[j].tc_line < WinStart(k)

\* C2 as stated: before[p] is the file state just before the first in-window
\* mutation of p, and that value is the checkpoint entry of p if there is
\* one, else the empty string, also when earlier windows mutated p.
C2_BeforeIsCheckpoint ==
    ExistingWindow =>
        LET k == result.prompt_index
        IN  \A p \in TouchedPaths(k) :
               /\ p \in DOMAIN result.ret.before_files
               /\ result.ret.before_files[p] = StateBeforeFirstTouch(k, p)
               /\ result.ret.before_files[p] = Get(Checkpoints, p, <<>>)

\* C2 amended: before[p] is the file state just before the first in-window
\* mutation of p, that is the checkpoint entry of p (else the empty string)
\* with the earlier mutations of p replayed on it; it is the checkpoint
\* entry, else the empty string, when no mutation of p precedes the window.
C2_BeforeIsStateAtFirstTouch ==
    ExistingWindow =>
        LET k == result.prompt_index
        IN  \A p \in TouchedPaths(k) :
               /\ p \in DOMAIN result.ret.before_files
               /\ result.ret.before_files[p] = StateBeforeFirstTouch(k, p)
               /\ ~MutatedEarlier(k, p) =>
                     result.ret.before_files[p] = Get(Checkpoints, p, <<>>)

\* a window whose path has a checkpoint, was mutated in an earlier window and
\* again in this one, with a before value that is neither the checkpoint nor
\* the after value
C2_Witness ==
    /\ ExistingWindow
    /\ \E p \in TouchedPaths(result.prompt_index) :
          /\ MutatedEarlier(result.prompt_index, p)
          /\ p \in DOMAIN Checkpoints
          /\ result.ret.before_files[p] # Checkpoints[p]
          /\ result.ret.before_files[p] # result.ret.after_files[p]

(* ------------------------------ C3 ------------------------------------- *)
\* C3: the keys of before, and of after, are exactly the paths that a
\* Write/Edit inside the window names (a call without file_path names no
\* path and adds no key); a window without mutations yields two empty maps.
C3_KeysAreTouchedPaths ==
    ExistingWindow =>
        LET k == result.prompt_index
        IN  /\ DOMAIN result.ret.before_files = TouchedPaths(k)
            /\ DOMAIN result.ret.after_files = TouchedPaths(k)
            /\ (\A j \in 1..Len(ToolCalls) : ~InWindow(k, ToolCalls[j].tc_line))
                  => /\ result.ret.before_files = EmptyMap
                     /\ result.ret.after_files = EmptyMap

\* a later window that touches one path only, after a window that touched
\* another path as well
C3_Witness ==
    /\ ExistingWindow
    /\ result.prompt_index >= 1
    /\ TouchedPaths(result.prompt_index) = {PathA}
    /\ PathB \in TouchedPaths(result.prompt_index - 1)
    /\ DOMAIN result.ret.before_files = {PathA}

(* ------------------------------ C5 ------------------------------------- *)
\* C5: the result for window k depends only on the log up to endIndex and
\* on the checkpoints: once a genuine prompt closes window k, no record
\* appended after it changes what the reconstruction of k returns.
C5_ClosedWindowIsStable ==
    [][ \A k \in 0..MaxIdx :
           k + 1 < NumPrompts =>
              _reconstruct_prompt_diff(jsonl'[SessionId], snapshots'[SessionId], k)
                 = _reconstruct_prompt_diff(jsonl[SessionId], snapshots[SessionId], k) ]_vars

(* ------------------------------ C6 ------------------------------------- *)
\* C6: for an index that names no window (at or above the number of genuine
\* prompts, or negative, or any index on a log without genuine prompts) the
\* reconstruction returns two empty maps and raises nothing.
C6_NoWindowGivesEmpty ==
    (IsDiff /\ result.prompt_index \notin 0..(NumPrompts - 1)) =>
        /\ result.ret.outcome = "ok"
        /\ result.ret.before_files = EmptyMap
        /\ result.ret.after_files = EmptyMap

(* ------------------------------ C7 ------------------------------------- *)
IsPrompts == result.kind = "prompts"

\* the windows of the listed prompts that contain log position pos
WindowsOf(pos) ==
    { n \in 1..Len(result.prompts) :
        result.prompts[n].line_i <= pos /\ pos < result.prompts[n].next_line }

\* C7 as stated: every Write/Edit event, also one before the first genuine
\* prompt, has its log position inside exactly one window.
C7_EveryMutationInOneWindow ==
    IsPrompts =>
        \A j \in 1..Len(ToolCalls) :
            Cardinality(WindowsOf(ToolCalls[j].tc_line)) = 1

\* C7 amended: every Write/Edit event at or after the first genuine prompt
\* has its log position inside exactly one window; an event before the first
\* genuine prompt, or in a log without genuine prompts, is inside none.
C7_MutationAfterFirstPromptInOneWindow ==
    IsPrompts =>
        \A j \in 1..Len(ToolCalls) :
            LET pos == ToolCalls[j].tc_line
            IN  IF NumPrompts > 0 /\ pos >= AnchorAt(0)
                THEN Cardinality(WindowsOf(pos)) = 1
                ELSE WindowsOf(pos) = {}

\* two prompts listed for a log with a mutation before the first genuine
\* prompt and a mutation inside the first window
C7_Witness ==
    /\ IsPrompts
    /\ Len(result.prompts) >= 2
    /\ \E j \in 1..Len(ToolCalls) : ToolCalls[j].tc_line < AnchorAt(0)
    /\ \E j \in 1..Len(ToolCalls) : WindowsOf(ToolCalls[j].tc_line) = {1}

(* ------------------------------ C8 ------------------------------------- *)
\* C8: the windows of the k genuine prompts, as _parse_jsonl_prompts and
\* _reconstruct_prompt_diff compute them, are non-empty, contiguous in prompt
\* order and pairwise disjoint, and cover exactly [firstPromptIndex, logLength).
C8_WindowsPartitionTail ==
    IsPrompts =>
        LET ps == result.prompts
            k == Len(ps)
            W(n) == ps[n].line_i .. (ps[n].next_line - 1)
            R(n) == ReconWindow(Lines, Meaningful, n - 1)
        IN  /\ k = NumPrompts
            /\ \A n \in 1..k :
                  /\ ps[n].line_i < ps[n].next_line
                  /\ R(n).target_line = ps[n].line_i
                  /\ R(n).next_line = ps[n].next_line
            /\ \A n \in 1..(k - 1) : ps[n].next_line = ps[n + 1].line_i
            /\ \A m, n \in 1..k : m # n => W(m) \cap W(n) = {}
            /\ k > 0 => UNION { W(n) : n \in 1..k } = AnchorAt(0)..(Len(Lines) - 1)

\* three windows listed, the first one starting after position 0
C8_Witness ==
    /\ IsPrompts
    /\ Len(result.prompts) = 3
    /\ result.prompts[1].line_i > 0

(* ------------------------------ C4 ------------------------------------- *)
\* replay of logs made of the scenario's records, on an empty checkpoint store
InitScenario ==
    /\ InitCommon
    /\ disk = EmptyMap
    /\ snapshots = [s \in Sessions |-> EmptyMap]

NextScenario ==
    \/ AppendLine(ScenarioLines, ScenarioLen)
    \/ Reconstruct

SpecScenario == InitScenario /\ [][NextScenario]_vars

\* C4 as stated: on the log [prompt0, Write(/a.py, "v1"), prompt1,
\* Edit(/a.py, "v1" -> "v2", once), Write(/b.py, "new")] with no checkpoints,
\* window 1 reconstructs to exactly before = {/a.py: "v1"} and
\* after = {/a.py: "v2", /b.py: "new"}.
C4_Scenario ==
    (jsonl[SessionId] = ScenarioLog /\ IsDiff /\ result.prompt_index = 1) =>
        /\ result.ret.outcome = "ok"
        /\ result.ret.before_files = [p \in {PathAPy} |-> V1]
        /\ result.ret.after_files =
              [p \in {PathAPy, PathBPy} |-> IF p = PathAPy THEN V2 ELSE New]

\* C4 amended: on that log window 1 reconstructs to exactly
\* before = {/a.py: "v1", /b.py: ""} and after = {/a.py: "v2", /b.py: "new"}:
\* the file created in the window is a key of before, with the empty string.
C4_ScenarioWithNewFile ==
    (jsonl[SessionId] = ScenarioLog /\ IsDiff /\ result.prompt_index = 1) =>
        /\ result.ret.outcome = "ok"
        /\ result.ret.before_files =
              [p \in {PathAPy, PathBPy} |-> IF p = PathAPy THEN V1 ELSE <<>>]
        /\ result.ret.after_files =
              [p \in {PathAPy, PathBPy} |-> IF p = PathAPy THEN V2 ELSE New]

\* window 1 of the scenario's log has been reconstructed
C4_Witness == jsonl[SessionId] = ScenarioLog /\ IsDiff /\ result.prompt_index = 1

(* ------------------------ hook_snapshot.py ----------------------------- *)
CLEANUP_INTERVAL == 3600

MAX_AGE == 7 * 24 * 3600

\* the session directories cleanup_old_snapshots removes: those whose
\* meta.json exists and is older than MAX_AGE
Stale(t) == { s \in DOMAIN meta : t - meta[s].mtime > MAX_AGE }

\* tool calls announced so far: those logged and those whose hook is running
RECURSIVE CountCalls(_)
CountCalls(raw) ==
    IF raw = <<>> THEN 0
    ELSE (IF Head(raw).json = "object" /\ Head(raw).obj.type = "assistant" THEN 1 ELSE 0)
         + CountCalls(Tail(raw))

Started ==
    CountCalls(jsonl["s1"]) + CountCalls(jsonl["s2"])
       + Cardinality({ pr \in Procs : hook[pr].pc # "idle" })

\* the hook is started with the JSON of one tool call on stdin
HookInvoke(P, S, C) ==
    \E pr \in P, s \in S, call \in C :
        /\ hook[pr].pc = "idle"
        /\ Started < MaxCalls
        /\ hook' = [hook EXCEPT ![pr] = [pc |-> "main", session_id |-> s,
                                         tool_name |-> call.name,
                                         tool_input |-> call.input,
                                         stdin |-> "object", raised |-> ""]]
        /\ orig' = IF call.name \in {"Write", "Edit"}
                      /\ <<s, call.input.file_path>> \notin DOMAIN orig
                   THEN Put(orig, <<s, call.input.file_path>>,
                            [exists |-> call.input.file_path \in DOMAIN disk,
                             content |-> Get(disk, call.input.file_path, <<>>)])
                   ELSE orig
        /\ UNCHANGED <<jsonl, snapshots, meta, marker, disk, now, result>>

\* the hook is started with something else on stdin: text that is not JSON
\* ("invalid"), a JSON value that is not an object ("value"), or an object
\* whose tool_input is not an object ("input_value")
HookInvokeBad(P, S, K) ==
    \E pr \in P, s \in S, k \in K :
        /\ hook[pr].pc = "idle"
        /\ Started < MaxCalls
        /\ hook' = [hook EXCEPT ![pr] = [pc |-> "main", session_id |-> s,
                                         tool_name |-> IF k = "input_value"
                                                       THEN "Write" ELSE "",
                                         tool_input |-> NoInput,
                                         stdin |-> k, raised |-> ""]]
        /\ UNCHANGED <<jsonl, snapshots, meta, marker, disk, now, result, orig>>

\* the exception that the reads at the top of main raise, "" if none:
\* json.load on text that is not JSON, .get on a value that has no .get
StdinError(h) ==
    IF h.stdin = "invalid" THEN "JSONDecodeError"
    ELSE IF h.stdin = "value" THEN "AttributeError"
    ELSE IF h.stdin = "input_value" /\ h.tool_name \in {"Write", "Edit"}
         THEN "AttributeError"
    ELSE ""

\* mutant: main goes on for every tool
HookMain_NoToolTest(P) ==
    \E pr \in P :
        LET h == hook[pr]
            file_path == h.tool_input.file_path
        IN  /\ h.pc = "main"
            /\ hook' = [hook EXCEPT ![pr].raised = StdinError(h),
                                    ![pr].pc =
                          IF StdinError(h) # "" THEN "exit"
                          ELSE IF file_path = <<>> \/ ~IsAbs(file_path) THEN "exit"
                          ELSE IF file_path \notin DOMAIN disk THEN "exit"
                          ELSE "check_dest"]
            /\ UNCHANGED <<jsonl, snapshots, meta, marker, disk, now, result, orig>>

\* main, up to the test that the file exists
HookMain(P) ==
    \E pr \in P :
        LET h == hook[pr]
            file_path == h.tool_input.file_path
        IN  /\ h.pc = "main"
            /\ hook' = [hook EXCEPT ![pr].raised = StdinError(h),
                                    ![pr].pc =
                          IF StdinError(h) # "" THEN "exit"
                          ELSE IF h.tool_name \notin {"Write", "Edit"} THEN "exit"
                          ELSE IF file_path = <<>> \/ ~IsAbs(file_path) THEN "exit"
                          ELSE IF file_path \notin DOMAIN disk THEN "exit"
                          ELSE "check_dest"]
            /\ UNCHANGED <<jsonl, snapshots, meta, marker, disk, now, result, orig>>

\* mutant: the test for an existing dest is left out
HookCheckDest_NoTest(P) ==
    \E pr \in P :
        /\ hook[pr].pc = "check_dest"
        /\ hook' = [hook EXCEPT ![pr].pc = "copy"]
        /\ UNCHANGED <<jsonl, snapshots, meta, marker, disk, now, result, orig>>

\* if os.path.exists(dest): return
HookCheckDest(P) ==
    \E pr \in P :
        LET h == hook[pr]
            rel_path == LStripSlash(h.tool_input.file_path)
        IN  /\ h.pc = "check_dest"
            /\ hook' = [hook EXCEPT ![pr].pc =
                          IF rel_path \in DOMAIN snapshots[h.session_id]
                          THEN "exit" ELSE "copy"]
            /\ UNCHANGED <<jsonl, snapshots, meta, marker, disk, now, result, orig>>

\* os.makedirs(...); shutil.copy2(file_path, dest)
HookCopy(P) ==
    \E pr \in P :
        LET h == hook[pr]
            file_path == h.tool_input.file_path
            rel_path == LStripSlash(file_path)
        IN  /\ h.pc = "copy"
            /\ IF file_path \in DOMAIN disk
               THEN /\ snapshots' = [snapshots EXCEPT ![h.session_id] =
                                        Put(@, rel_path, disk[file_path])]
                    /\ hook' = [hook EXCEPT ![pr].pc = "check_meta"]
               ELSE /\ snapshots' = snapshots
                    /\ hook' = [hook EXCEPT ![pr].pc = "exit"]
            /\ UNCHANGED <<jsonl, meta, marker, disk, now, result, orig>>

\* if not os.path.exists(meta_path)
HookCheckMeta(P) ==
    \E pr \in P :
        LET h == hook[pr]
        IN  /\ h.pc = "check_meta"
            /\ hook' = [hook EXCEPT ![pr].pc =
                          IF h.session_id \in DOMAIN meta THEN "cleanup"
                          ELSE "write_meta"]
            /\ UNCHANGED <<jsonl, snapshots, meta, marker, disk, now, result, orig>>

\* with open(meta_path, "w") as f: json.dump(meta, f, indent=2)
HookWriteMeta(P) ==
    \E pr \in P :
        LET h == hook[pr]
        IN  /\ h.pc = "write_meta"
            /\ meta' = Put(meta, h.session_id,
                           [session_id |-> h.session_id, created |-> now,
                            mtime |-> now])
            /\ hook' = [hook EXCEPT ![pr].pc = "cleanup"]
            /\ UNCHANGED <<jsonl, snapshots, marker, disk, now, result, orig>>

\* try: cleanup_old_snapshots() except Exception: pass
HookCleanup(P) ==
    \E pr \in P :
        /\ hook[pr].pc = "cleanup"
        /\ IF marker # NoMarker /\ now - marker < CLEANUP_INTERVAL
           THEN UNCHANGED <<snapshots, meta, marker>>
           ELSE /\ snapshots' = [s \in Sessions |->
                                    IF s \in Stale(now) THEN EmptyMap ELSE snapshots[s]]
                /\ meta' = [s \in DOMAIN meta \ Stale(now) |-> meta[s]]
                /\ marker' = now
        /\ hook' = [hook EXCEPT ![pr].pc = "exit"]
        /\ UNCHANGED <<jsonl, disk, now, result, orig>>

\* the file system refuses a call of main: the source cannot be read or the
\* store cannot be written (makedirs, copy2, open raise), and main ends there
HookFail(P) ==
    \E pr \in P :
        /\ hook[pr].pc \in {"copy", "write_meta"}
        /\ hook' = [hook EXCEPT ![pr].raised = "PermissionError", ![pr].pc = "exit"]
        /\ UNCHANGED <<jsonl, snapshots, meta, marker, disk, now, result, orig>>

\* cleanup_old_snapshots raises, before its scan or when it writes the
\* marker; main's try/except takes the exception and main returns
HookCleanupFail(P) ==
    \E pr \in P, scanned \in BOOLEAN :
        /\ hook[pr].pc = "cleanup"
        /\ marker = NoMarker \/ now - marker >= CLEANUP_INTERVAL
        /\ IF scanned
           THEN /\ snapshots' = [s \in Sessions |->
                                    IF s \in Stale(now) THEN EmptyMap ELSE snapshots[s]]
                /\ meta' = [s \in DOMAIN meta \ Stale(now) |-> meta[s]]
           ELSE UNCHANGED <<snapshots, meta>>
        /\ hook' = [hook EXCEPT ![pr].pc = "exit"]
        /\ UNCHANGED <<jsonl, marker, disk, now, result, orig>>

\* the classes that "except Exception" takes
ExceptionClasses ==
    {"JSONDecodeError", "AttributeError", "PermissionError", "OSError",
     "ValueError", "TypeError"}

\* mutant: the guard takes the file system's errors only
MainGuard_OSErrorOnly(raised) ==
    IF raised = "" \/ raised \in {"PermissionError", "OSError"}
    THEN "succeeded" ELSE "failed"

\* if __name__ == "__main__": try: main() except Exception: pass
MainGuard(raised) ==
    IF raised = "" \/ raised \in ExceptionClasses THEN "succeeded" ELSE "failed"

\* what the tool the hook precedes does to the file
RunTool(files, name, input) ==
    LET fp == input.file_path
    IN  IF name = "Write" /\ IsAbs(fp) THEN Put(files, fp, input.content)
        ELSE IF name = "Edit" /\ fp \in DOMAIN files /\ input.old_string # <<>>
             THEN Put(files, fp,
                      Replace(files[fp], input.old_string, input.new_string,
                              IF input.replace_all THEN -1 ELSE 1))
        ELSE files

\* the hook has returned: the tool runs and the call is in the session's log
ToolRun(P) ==
    \E pr \in P :
        LET h == hook[pr]
        IN  /\ h.pc = "exit"
            /\ disk' = RunTool(disk, h.tool_name, h.tool_input)
            /\ jsonl' = [jsonl EXCEPT ![h.session_id] =
                            Append(@, Calls(<< ToolUse(h.tool_name, h.tool_input) >>))]
            /\ hook' = [hook EXCEPT ![pr] = Idle]
            /\ result' = NoResult
            /\ UNCHANGED <<snapshots, meta, marker, now, orig>>

\* time passes, to one of the instants I; the instants are an hour or more
\* apart and a hook runs for a moment, so no hook spans two of them
Tick(I) ==
    /\ \A pr \in Procs : hook[pr].pc = "idle"
    /\ \E t \in I : t > now /\ now' = t
    /\ UNCHANGED <<jsonl, snapshots, meta, marker, disk, hook, result, orig>>

(* ------------------- inputs of the hook runs --------------------------- *)
\* the tool calls the sessions make
HookCalls ==
    { ToolUse("Write", WriteInput(PathA, <<"x">>)),
      ToolUse("Edit", EditInput(PathA, <<"x">>, <<"y", "x">>, FALSE)),
      ToolUse("Read", [NoInput EXCEPT !.file_path = PathA]),
      ToolUse("Write", WriteInput(<<"a">>, <<"x">>)) }

\* a reviewed session: one hook at a time, each tool call's hook returns
\* and the tool runs before the next call is announced
InitSession ==
    /\ InitCommon
    /\ disk \in {EmptyMap, [p \in {PathA} |-> <<"x">>]}
    /\ snapshots = [s \in Sessions |-> EmptyMap]

NextSession ==
    \/ AppendLine({Prompt(<<"h", "i">>)}, MaxLines)
    \/ HookInvoke({1}, {SessionId}, HookCalls)
    \/ HookMain({1})
    \/ HookCheckDest({1})
    \/ HookCopy({1})
    \/ HookCheckMeta({1})
    \/ HookWriteMeta({1})
    \/ HookCleanup({1})
    \/ ToolRun({1})
    \/ Reconstruct

SpecSession == InitSession /\ [][NextSession]_vars

(* ------------------------------ C9 ------------------------------------- *)
\* the first mutation of p in the reviewed session's log is a Write
CreatedByWrite(p) ==
    \E j \in 1..Len(ToolCalls) :
        /\ ToolCalls[j].tc_input.file_path = p
        /\ ToolCalls[j].tc_name = "Write"
        /\ \A n \in 1..(j - 1) : ToolCalls[n].tc_input.file_path # p

\* C9: a stored checkpoint of (session, path) holds the content the file had
\* before the session's first tracked Write/Edit of the path; a file that did
\* not exist then, created by a Write and edited later, gets no checkpoint
\* with its post-Write content, so its before value in the creating window
\* is the empty string.
C9_CheckpointIsPreSessionContent ==
    /\ \A s \in Sessions : \A rel \in DOMAIN snapshots[s] :
          LET key == <<s, <<"/">> \o rel>>
          IN  /\ key \in DOMAIN orig
              /\ orig[key].exists
              /\ snapshots[s][rel] = orig[key].content
    /\ ExistingWindow =>
          \A p \in TouchedPaths(result.prompt_index) :
              ( /\ <<SessionId, p>> \in DOMAIN orig
                /\ ~orig[<<SessionId, p>>].exists
                /\ ~MutatedEarlier(result.prompt_index, p)
                /\ CreatedByWrite(p) )
              => result.ret.before_files[p] = <<>>

(* ------------------------------ C10 ------------------------------------ *)
\* the calls of a session whose tool calls run in parallel
ConcCalls ==
    { ToolUse("Edit", EditInput(PathA, <<"x">>, <<"y", "x">>, FALSE)),
      ToolUse("Write", WriteInput(PathB, <<"x">>)) }

\* the instants the clock is looked at
ConcInstants == {CLEANUP_INTERVAL}

\* hooks of the same session run as concurrent processes: their file system
\* calls interleave, and each tool runs when its own hook has returned
InitConc ==
    /\ InitCommon
    /\ disk = [p \in {PathA, PathB} |-> <<"x">>]
    /\ snapshots = [s \in Sessions |-> EmptyMap]

NextConc ==
    \/ HookInvoke(Procs, {SessionId}, ConcCalls)
    \/ HookMain(Procs)
    \/ HookCheckDest(Procs)
    \/ HookCopy(Procs)
    \/ HookCheckMeta(Procs)
    \/ HookWriteMeta(Procs)
    \/ HookCleanup(Procs)
    \/ ToolRun(Procs)
    \/ Tick(ConcInstants)

SpecConc == InitConc /\ [][NextConc]_vars

\* C10: with concurrent hooks of one session, first writer wins for the
\* checkpoint of every path and for meta.json: in every interleaving, a stored
\* checkpoint or metadata record is never given another content.
C10_FirstWriterWins ==
    [][ /\ \A s \in Sessions : \A rel \in DOMAIN snapshots[s] :
              rel \in DOMAIN snapshots'[s] => snapshots'[s][rel] = snapshots[s][rel]
        /\ \A s \in DOMAIN meta :
              s \in DOMAIN meta' => meta'[s] = meta[s] ]_vars

(* ------------------------------ C11 ------------------------------------ *)
\* the tool calls of the sessions that share the snapshot store
SeqCalls ==
    { ToolUse("Edit", EditInput(PathA, <<"x">>, <<"y", "x">>, FALSE)),
      ToolUse("Write", WriteInput(PathB, <<"y">>)),
      ToolUse("Read", [NoInput EXCEPT !.file_path = PathA]) }

\* the instants the clock is looked at
SeqInstants == {CLEANUP_INTERVAL, MAX_AGE + CLEANUP_INTERVAL + 1}

\* sessions that take turns: one hook at a time, each hook returns and its
\* tool runs before the next call, of any session, is announced
InitSeq ==
    /\ InitCommon
    /\ disk \in {[p \in {PathA} |-> <<"x">>], [p \in {PathA, PathB} |-> <<"x">>]}
    /\ snapshots = [s \in Sessions |-> EmptyMap]

NextSeq ==
    \/ HookInvoke({1}, Sessions, SeqCalls)
    \/ HookMain({1})
    \/ HookCheckDest({1})
    \/ HookCopy({1})
    \/ HookCheckMeta({1})
    \/ HookWriteMeta({1})
    \/ HookCleanup({1})
    \/ ToolRun({1})
    \/ Tick(SeqInstants)

SpecSeq == InitSeq /\ [][NextSeq]_vars

\* process pr runs a hook for a Write/Edit whose checkpoint is already stored
\* and has not yet reached its copy
LaterInvocation(pr) ==
    /\ hook[pr].pc \in {"main", "check_dest", "copy"}
    /\ hook[pr].tool_name \in {"Write", "Edit"}
    /\ LStripSlash(hook[pr].tool_input.file_path) \in DOMAIN snapshots[hook[pr].session_id]

\* C11: with one hook at a time, an invocation for a (session, path) whose
\* checkpoint is stored returns without copying and leaves the stored
\* content as it is, whatever the file holds now.
C11_LaterInvocationKeepsCheckpoint ==
    [][ \A pr \in Procs :
           LaterInvocation(pr) =>
              LET s == hook[pr].session_id
                  rel == LStripSlash(hook[pr].tool_input.file_path)
              IN  /\ rel \in DOMAIN snapshots'[s]
                  /\ snapshots'[s][rel] = snapshots[s][rel]
                  /\ hook'[pr].pc \in {"main", "check_dest", "exit"} ]_vars

\* a later hook for a stored checkpoint has returned while the file on disk
\* differs from the checkpoint
C11_Witness ==
    /\ hook[1].pc = "exit"
    /\ hook[1].tool_name = "Edit"
    /\ <<"a">> \in DOMAIN snapshots[hook[1].session_id]
    /\ PathA \in DOMAIN disk
    /\ disk[PathA] # snapshots[hook[1].session_id][<<"a">>]

(* ------------------------------ C12 ------------------------------------ *)
\* C12: a stored checkpoint of a session never changes and is never removed
\* while the session goes on issuing tool calls: no step of a hook, its
\* cleanup included, touches the entries of a session that has a call in
\* flight.
C12_CheckpointImmutable ==
    [][ \A pr \in Procs :
           hook[pr].pc # "idle" =>
              LET s == hook[pr].session_id
              IN  \A rel \in DOMAIN snapshots[s] :
                     /\ rel \in DOMAIN snapshots'[s]
                     /\ snapshots'[s][rel] = snapshots[s][rel] ]_vars

(* ------------------------------ C13 ------------------------------------ *)
\* what a hook may find on stdin instead of a tool call
BadStdin == {"invalid", "value", "input_value"}

\* a session whose hook meets malformed input and a failing file system
NextFail ==
    \/ HookInvoke({1}, {SessionId}, SeqCalls)
    \/ HookInvokeBad({1}, {SessionId}, BadStdin)
    \/ HookMain({1})
    \/ HookCheckDest({1})
    \/ HookCopy({1})
    \/ HookCheckMeta({1})
    \/ HookWriteMeta({1})
    \/ HookCleanup({1})
    \/ HookFail({1})
    \/ HookCleanupFail({1})
    \/ ToolRun({1})
    \/ Tick(SeqInstants)

SpecFail == InitSeq /\ [][NextFail]_vars

\* C13: the hook never passes a failure on to its caller: whatever it reads
\* from stdin and whatever the file system refuses, the process ends as
\* succeeded, with no exception leaving it.
C13_HookNeverFails ==
    \A pr \in Procs :
        hook[pr].pc = "exit" => MainGuard(hook[pr].raised) = "succeeded"

\* a hook that has ended after json.load raised on its stdin
C13_Witness ==
    /\ hook[1].pc = "exit"
    /\ hook[1].stdin = "invalid"
    /\ hook[1].raised = "JSONDecodeError"

(* --------------------------- C14, C15 ---------------------------------- *)
\* lines of every kind: a prompt, a mutation, rejected text, a JSON number
LogLines ==
    { Prompt(<<"h","i">>),
      Calls(<<ToolUse("Write", WriteInput(PathA, <<"x">>))>>),
      BadLine,
      ValueLine }

NextLines ==
    \/ AppendLine(LogLines, MaxLines)
    \/ ReadLog
    \/ LoadPrompts
    \/ Reconstruct

SpecLines == Init /\ [][NextLines]_vars

\* the log without the lines that are not structured objects
ObjectLinesOnly(raw) == SelectSeq(raw, LAMBDA r : r.json = "object")

\* C14: a line that is not a structured object never makes listing or
\* reconstruction fail: the call returns, without raising, what it returns
\* for the log with these lines removed.
C14_BadLinesAreSkipped ==
    /\ IsPrompts =>
          /\ result.outcome = "ok"
          /\ result.prompts = _parse_jsonl_prompts(ObjectLinesOnly(jsonl[SessionId]))
    /\ IsDiff =>
          /\ result.ret.outcome # "AttributeError"
          /\ result.ret = _reconstruct_prompt_diff(ObjectLinesOnly(jsonl[SessionId]),
                                                   snapshots[SessionId],
                                                   result.prompt_index)

\* the last call read the log
IsLines == result.kind = "lines"

\* the positions of the source that json.loads accepts
Parseable == { i \in 1..Len(jsonl[SessionId]) : jsonl[SessionId][i].json # "invalid" }

\* the k-th parseable position, counting from 1
KthParseable(k) ==
    CHOOSE i \in Parseable : Cardinality({ j \in Parseable : j <= i }) = k

\* C15: _read_jsonl returns the parseable lines of the source, each once and
\* in line order, so no more records than lines; a source that cannot be
\* opened gives the empty sequence.
C15_ReadIsOrderedSubsequence ==
    IsLines =>
        /\ Len(result.lines) <= Len(jsonl[SessionId])
        /\ result.openable =>
              /\ Len(result.lines) = Cardinality(Parseable)
              /\ \A k \in 1..Len(result.lines) :
                    result.lines[k] = jsonl[SessionId][KthParseable(k)].obj
        /\ ~result.openable => result.lines = <<>>

\* a read that skipped a rejected line and kept the records on both sides
C15_Witness ==
    /\ IsLines
    /\ result.openable
    /\ Len(result.lines) >= 2
    /\ \E i, j, k \in 1..Len(jsonl[SessionId]) :
          /\ i < j /\ j < k
          /\ i \in Parseable /\ j \notin Parseable /\ k \in Parseable
          /\ jsonl[SessionId][i] # jsonl[SessionId][k]

(* ------------------------------ C16 ------------------------------------ *)
\* the last mutation of p inside window k, as an index into ToolCalls
LastTouch(k, p) == CHOOSE j \in TouchesIn(k, p) : \A n \in TouchesIn(k, p) : n <= j

\* the first mutation of p inside window k, as an index into ToolCalls
FirstTouch(k, p) == CHOOSE j \in TouchesIn(k, p) : \A n \in TouchesIn(k, p) : j <= n

\* C16: a Write sets the state of its path to its content whatever the state
\* was: the replay up to and including Write(p, c) has state[p] = c, and a
\* window whose last mutation of p below endIndex is Write(p, c) has
\* after[p] = c.
C16_WriteSetsState ==
    /\ \A j \in 1..Len(ToolCalls) :
          LET tc == ToolCalls[j]
              fs == ReplayAll(SubSeq(ToolCalls, 1, j), Checkpoints)
          IN  (tc.tc_name = "Write" /\ tc.tc_input.file_path # <<>>) =>
                 /\ tc.tc_input.file_path \in DOMAIN fs
                 /\ fs[tc.tc_input.file_path] = tc.tc_input.content
    /\ ExistingWindow =>
          LET k == result.prompt_index
          IN  \A p \in TouchedPaths(k) :
                 ToolCalls[LastTouch(k, p)].tc_name = "Write" =>
                    result.ret.after_files[p] = ToolCalls[LastTouch(k, p)].tc_input.content

(* ------------------------------ C19 ------------------------------------ *)
\* the Writes of p at log positions below pos, as indices into ToolCalls
WritesBefore(pos, p) ==
    { j \in 1..Len(ToolCalls) :
        /\ ToolCalls[j].tc_input.file_path = p
        /\ ToolCalls[j].tc_name = "Write"
        /\ ToolCalls[j].tc_line < pos }

\* the calls from the first Write of p on, at log positions below pos
FromFirstWrite(pos, p) ==
    LET first == CHOOSE j \in WritesBefore(pos, p) : \A n \in WritesBefore(pos, p) : j <= n
    IN  SelectSeq(SubSeq(ToolCalls, first, Len(ToolCalls)), LAMBDA tc : tc.tc_line < pos)

\* C19: an Edit of a path whose state is undefined (no checkpoint, no earlier
\* Write) is dropped: a window that touches such a path, with no Write of it
\* below endIndex, has after[p] = ""; with a Write, after[p] is the replay of
\* the mutations from the first Write on.
C19_EditOnUndefinedIsDropped ==
    ExistingWindow =>
        LET k == result.prompt_index
        IN  \A p \in TouchedPaths(k) :
               p \notin DOMAIN Checkpoints =>
                  result.ret.after_files[p] =
                     IF WritesBefore(WinEnd(k), p) = {} THEN <<>>
                     ELSE Get(ReplayAll(FromFirstWrite(WinEnd(k), p), EmptyMap), p, <<>>)

(* ------------------------------ C20 ------------------------------------ *)
\* p has no checkpoint, its first mutation inside window k is an Edit, and no
\* Write of p comes earlier in the log
FallbackCase(k, p) ==
    /\ p \in TouchedPaths(k)
    /\ p \notin DOMAIN Checkpoints
    /\ ToolCalls[FirstTouch(k, p)].tc_name = "Edit"
    /\ \A j \in 1..(FirstTouch(k, p) - 1) :
          ToolCalls[j].tc_input.file_path = p => ToolCalls[j].tc_name # "Write"

\* C20: checkpoint fallback: a path with no checkpoint and no earlier Write,
\* whose first mutation inside the window is an Edit, has before[p] = "".
C20_CheckpointFallback ==
    ExistingWindow =>
        \A p \in TouchedPaths(result.prompt_index) :
            FallbackCase(result.prompt_index, p) =>
                /\ p \in DOMAIN result.ret.before_files
                /\ result.ret.before_files[p] = <<>>

\* the fallback case in a later window, the path edited in an earlier one too
C20_Witness ==
    /\ ExistingWindow
    /\ result.prompt_index > 0
    /\ \E p \in TouchedPaths(result.prompt_index) :
          /\ FallbackCase(result.prompt_index, p)
          /\ MutatedEarlier(result.prompt_index, p)
          /\ result.ret.before_files[p] = <<>>

(* --------------------------- C17, C18 ---------------------------------- *)
\* the file contents an Edit meets: every string over a, b up to MaxStr
\* letters, and the string of the example
Example == <<"a", "b", "a", "b", "a", "b">>

EditStates == UNION { [1..m -> {"a", "b"}] : m \in 0..MaxStr } \cup {Example}

\* the Edit calls of the runs: once and all, an old_string that may overlap
\* itself, a new_string that contains old_string, an empty old_string, and an
\* Edit of a second file
EditLines ==
    { Calls(<< ToolUse("Edit", EditInput(PathA, old, <<"X">>, all)) >>) :
        old \in { <<"a">>, <<"a", "b">>, <<"a", "a">> }, all \in BOOLEAN }
    \cup
    { Calls(<< ToolUse("Edit", EditInput(PathA, <<"a">>, <<"a", "a">>, TRUE)) >>),
      Calls(<< ToolUse("Edit", EditInput(PathA, <<>>, <<"X">>, FALSE)) >>),
      Calls(<< ToolUse("Edit", EditInput(PathB, <<"b">>, <<"a">>, FALSE)) >>) }

\* both files have a checkpoint; the log is a prompt followed by Edits
InitEdit ==
    /\ InitCommon
    /\ disk = EmptyMap
    /\ \E s \in EditStates :
          snapshots = [x \in Sessions |->
                         IF x = SessionId
                         THEN [rel \in {<<"a">>, <<"b">>} |->
                                  IF rel = <<"a">> THEN s ELSE <<"b">>]
                         ELSE EmptyMap]

NextEdit ==
    \/ AppendLine(IF jsonl[SessionId] = <<>> THEN {Prompt(<<"h", "i">>)} ELSE EditLines,
                  MaxEdits + 1)
    \/ Reconstruct

SpecEdit == InitEdit /\ [][NextEdit]_vars

\* old occurs in s at position i (1-based)
OccursAt(s, old, i) ==
    /\ i + Len(old) - 1 <= Len(s)
    /\ SubSeq(s, i, i + Len(old) - 1) = old

Occurs(s, old) == \E i \in 1..Len(s) : OccursAt(s, old, i)

\* the position of the leftmost occurrence
Leftmost(s, old) ==
    CHOOSE i \in 1..Len(s) :
        OccursAt(s, old, i) /\ \A j \in 1..(i - 1) : ~OccursAt(s, old, j)

\* s with its leftmost occurrence of old replaced by new
ReplaceLeftmost(s, old, new) ==
    IF ~Occurs(s, old) THEN s
    ELSE SubSeq(s, 1, Leftmost(s, old) - 1) \o new
         \o SubSeq(s, Leftmost(s, old) + Len(old), Len(s))

\* s with the leftmost occurrence replaced, then the leftmost occurrence in
\* what follows it, and so on: the occurrences replaced do not overlap and
\* the text put in is not searched
RECURSIVE ReplaceEvery(_, _, _)
ReplaceEvery(s, old, new) ==
    IF ~Occurs(s, old) THEN s
    ELSE SubSeq(s, 1, Leftmost(s, old) - 1) \o new
         \o ReplaceEvery(SubSeq(s, Leftmost(s, old) + Len(old), Len(s)), old, new)

\* the content s of p after the calls, Edits read as the claim reads them
RECURSIVE EditedState(_, _, _)
EditedState(p, calls, s) ==
    IF calls = <<>> THEN s
    ELSE LET inp == Head(calls).tc_input
         IN  EditedState(p, Tail(calls),
                 IF inp.file_path # p THEN s
                 ELSE IF Head(calls).tc_name = "Write" THEN inp.content
                 ELSE IF inp.old_string = <<>> THEN s
                 ELSE IF inp.replace_all
                      THEN ReplaceEvery(s, inp.old_string, inp.new_string)
                      ELSE ReplaceLeftmost(s, inp.old_string, inp.new_string))

\* the last call was a reconstruction of the window that ends the log
OpenWindow == ExistingWindow /\ WinEnd(result.prompt_index) = Len(Lines)

\* the log is a prompt and the Edit of the example, once or all
ExampleRun(all) ==
    /\ Checkpoints[PathA] = Example
    /\ Len(ToolCalls) = 1
    /\ ToolCalls[1].tc_input = EditInput(PathA, <<"a", "b">>, <<"X">>, all)

\* C17: an Edit on a defined state with a non-empty old replaces the
\* leftmost occurrence of old when replaceAll is false, and every
\* non-overlapping occurrence, left to right, when it is true; "ababab" with
\* old "ab", new "X" becomes "Xabab" and "XXX".
C17_EditReplacesLeftmostOrEvery ==
    OpenWindow =>
        /\ \A p \in TouchedPaths(result.prompt_index) :
              result.ret.after_files[p] = EditedState(p, ToolCalls, Checkpoints[p])
        /\ ExampleRun(FALSE) =>
              result.ret.after_files[PathA] = <<"X", "a", "b", "a", "b">>
        /\ ExampleRun(TRUE) =>
              result.ret.after_files[PathA] = <<"X", "X", "X">>

\* the example with replaceAll, reconstructed
C17_Witness ==
    /\ OpenWindow
    /\ ExampleRun(TRUE)
    /\ result.ret.before_files[PathA] = Example
    /\ result.ret.after_files[PathA] = <<"X", "X", "X">>

\* tc is an Edit of a file with a state, with old empty or not in the state
NoOpEdit(tc, fs) ==
    /\ tc.tc_name = "Edit"
    /\ tc.tc_input.file_path \in DOMAIN fs
    /\ \/ tc.tc_input.old_string = <<>>
       \/ ~Occurs(fs[tc.tc_input.file_path], tc.tc_input.old_string)

\* the file states before the last call of the log
StatesBeforeLast == ReplayAll(SubSeq(ToolCalls, 1, Len(ToolCalls) - 1), Checkpoints)

\* C18: an Edit whose old is empty or does not occur in the defined state of
\* its path leaves the state of every path as it was, and the replay does not
\* fail: when such an Edit ends the log, after is the state before it.
C18_NoOpEditChangesNothing ==
    (OpenWindow /\ ToolCalls # <<>>) =>
        (NoOpEdit(ToolCalls[Len(ToolCalls)], StatesBeforeLast) =>
            /\ result.ret.outcome = "ok"
            /\ \A q \in DOMAIN result.ret.after_files :
                  result.ret.after_files[q] = Get(StatesBeforeLast, q, <<>>))

\* an Edit that changed the file, then an Edit whose old is absent from it
C18_Witness ==
    /\ OpenWindow
    /\ Len(ToolCalls) = 2
    /\ NoOpEdit(ToolCalls[2], StatesBeforeLast)
    /\ ToolCalls[2].tc_input.old_string # <<>>
    /\ PathA \in DOMAIN result.ret.after_files
    /\ result.ret.after_files[PathA] # Checkpoints[PathA]
    /\ result.ret.after_files[PathA] # <<>>

(* ------------------------------ C21 ------------------------------------ *)
\* the reconstruction requests that may be in progress at once
Reqs == {1, 2}

\* the locals of one call of _reconstruct_prompt_diff
StartWalk(files) ==
    [file_states |-> LoadSnapshots(files), before_files |-> EmptyMap,
     files_in_prompt |-> {}]

Returned(outcome, before_files, after_files) ==
    [outcome |-> outcome, before_files |-> before_files, after_files |-> after_files]

NoReq ==
    [pc |-> "idle", prompt_index |-> 0, tool_calls |-> <<>>, target_line |-> 0,
     next_line |-> 0, j |-> 0, st |-> StartWalk(EmptyMap),
     ret |-> Returned("ok", EmptyMap, EmptyMap)]

\* the requests in progress and finished since the log last changed
Requests == IF result.kind = "requests" THEN result.reqs ELSE [r \in Reqs |-> NoReq]

\* the return at the end of the function: after_files from files_in_prompt
Collect(st) ==
    Returned("ok", st.before_files,
             [fp \in st.files_in_prompt |-> Get(st.file_states, fp, <<>>)])

\* a call begins: it reads the log, finds prompts and tool calls, and loads
\* the checkpoints into a file_states of its own
ReqStart ==
    \E r \in Reqs, prompt_index \in -MaxIdx..MaxIdx :
        LET lines == _read_jsonl(jsonl[SessionId])
            meaningful == _find_meaningful_prompts(lines)
            end(ret) == [NoReq EXCEPT !.pc = "done", !.prompt_index = prompt_index,
                                      !.ret = ret]
        IN  /\ Requests[r].pc \in {"idle", "done"}
            /\ result' =
                 [kind |-> "requests",
                  reqs |-> [Requests EXCEPT ![r] =
                     IF GetRaises(lines)
                     THEN end(Returned("AttributeError", EmptyMap, EmptyMap))
                     ELSE IF prompt_index >= Len(meaningful)
                     THEN end(Returned("ok", EmptyMap, EmptyMap))
                     ELSE IF ~PyIndexOK(meaningful, prompt_index)
                     THEN end(Returned("IndexError", EmptyMap, EmptyMap))
                     ELSE [NoReq EXCEPT
                             !.pc = "walk",
                             !.prompt_index = prompt_index,
                             !.tool_calls = _extract_tool_calls(lines),
                             !.target_line =
                                 ReconWindow(lines, meaningful, prompt_index).target_line,
                             !.next_line =
                                 ReconWindow(lines, meaningful, prompt_index).next_line,
                             !.j = 1,
                             !.st = StartWalk(snapshots[SessionId])]]]
            /\ result' # result
            /\ UNCHANGED <<jsonl, snapshots, meta, marker, disk, now, hook, orig>>

\* mutant: file_states is one dictionary that the calls in progress share
ReqStep_SharedFileStates ==
    \E r \in Reqs :
        LET q == Requests[r]
            others == { o \in Reqs \ {r} : Requests[o].pc = "walk" }
            mine == IF others = {} THEN q.st
                    ELSE [q.st EXCEPT !.file_states =
                             Requests[CHOOSE o \in others : TRUE].st.file_states]
        IN  /\ q.pc = "walk"
            /\ result' =
                 [kind |-> "requests",
                  reqs |-> [Requests EXCEPT ![r] =
                     IF q.j > Len(q.tool_calls)
                     THEN [q EXCEPT !.pc = "done", !.ret = Collect(mine)]
                     ELSE LET tc == q.tool_calls[q.j]
                              st1 == CaptureBefore(mine, tc, q.target_line, q.next_line)
                              st2 == [st1 EXCEPT !.file_states = ApplyCall(@, tc)]
                          IN  IF tc.tc_input.file_path = <<>>
                              THEN [q EXCEPT !.j = q.j + 1]
                              ELSE IF PastTarget(tc, q.next_line)
                              THEN [q EXCEPT !.pc = "done", !.st = st2,
                                             !.ret = Collect(st2)]
                              ELSE [q EXCEPT !.j = q.j + 1, !.st = st2]]]
            /\ UNCHANGED <<jsonl, snapshots, meta, marker, disk, now, hook, orig>>

\* one pass of the loop over tool_calls, or the return after the loop
ReqStep ==
    \E r \in Reqs :
        LET q == Requests[r]
        IN  /\ q.pc = "walk"
            /\ result' =
                 [kind |-> "requests",
                  reqs |-> [Requests EXCEPT ![r] =
                     IF q.j > Len(q.tool_calls)
                     THEN [q EXCEPT !.pc = "done", !.ret = Collect(q.st)]
                     ELSE LET tc == q.tool_calls[q.j]
                              st1 == CaptureBefore(q.st, tc, q.target_line, q.next_line)
                              st2 == [st1 EXCEPT !.file_states = ApplyCall(@, tc)]
                          IN  IF tc.tc_input.file_path = <<>>
                              THEN [q EXCEPT !.j = q.j + 1]
                              ELSE IF PastTarget(tc, q.next_line)
                              THEN [q EXCEPT !.pc = "done", !.st = st2,
                                             !.ret = Collect(st2)]
                              ELSE [q EXCEPT !.j = q.j + 1, !.st = st2]]]
            /\ UNCHANGED <<jsonl, snapshots, meta, marker, disk, now, hook, orig>>

\* the records of the logs the requests are made on
ParLines ==
    { Prompt(<<"h", "i">>),
      Calls(<< ToolUse("Write", WriteInput(PathA, <<"x">>)) >>),
      Calls(<< ToolUse("Edit", EditInput(PathA, <<"x">>, <<"y", "x">>, FALSE)) >>) }

NextPar ==
    \/ AppendLine(ParLines, MaxLines)
    \/ ReqStart
    \/ ReqStep

SpecPar == Init /\ [][NextPar]_vars

\* C21: a reconstruction gives what a call running alone gives on the same
\* log and checkpoints, whatever other reconstructions ran before it or run
\* interleaved with it, and no step of a reconstruction changes the log or
\* the checkpoint store.
C21_ReplayIsDeterministicAndStateless ==
    [][ result'.kind = "requests" =>
           /\ jsonl' = jsonl
           /\ snapshots' = snapshots
           /\ \A r \in Reqs :
                 result'.reqs[r].pc = "done" =>
                    result'.reqs[r].ret =
                       _reconstruct_prompt_diff(jsonl[SessionId], snapshots[SessionId],
                                                result'.reqs[r].prompt_index) ]_vars

\* a finished reconstruction of window 0 that changed a file, while the
\* reconstruction of window 1 is inside its loop with other file states
C21_Witness ==
    /\ result.kind = "requests"
    /\ result.reqs[1].pc = "done"
    /\ result.reqs[1].prompt_index = 0
    /\ PathA \in DOMAIN result.reqs[1].ret.after_files
    /\ result.reqs[1].ret.after_files[PathA] # result.reqs[1].ret.before_files[PathA]
    /\ result.reqs[2].pc = "walk"
    /\ result.reqs[2].prompt_index = 1
    /\ result.reqs[2].j > 1
    /\ Get(result.reqs[2].st.file_states, PathA, <<>>) # result.reqs[1].ret.after_files[PathA]

(* ------------------------------ C22 ------------------------------------ *)
CommandName == <<"<","c","o","m","m","a","n","d","-","n","a","m","e",">">>

SystemReminder ==
    <<"<","s","y","s","t","e","m","-","r","e","m","i","n","d","e","r",">">>

RequestInterrupted ==
    <<"[","R","e","q","u","e","s","t"," ","i","n","t","e","r","r","u","p","t","e","d">>

ToolResult == [type |-> "tool_result", text |-> <<>>, name |-> "", input |-> NoInput]

UserBlocks(bs) == JsonLine(UserLine(ListContent(bs)))

\* the kinds of record the filter has to tell apart
RecordKinds ==
    { Prompt(<<"h", "i">>),
      Prompt(<<>>),
      Prompt(<<" ", "\n">>),
      Prompt(SystemReminder \o <<"x">>),
      Prompt(<<" ">> \o CommandName),
      Prompt(<<"x">> \o CommandName),
      Prompt(SubSeq(SystemReminder, 1, Len(SystemReminder) - 1)),
      UserBlocks(<< TextBlock(<<"h", "i">>), ToolResult, TextBlock(<<"y", "o">>) >>),
      UserBlocks(<< ToolResult >>),
      UserBlocks(<< TextBlock(RequestInterrupted), TextBlock(<<"b", "y">>) >>),
      UserBlocks(<< TextBlock(<<>>), TextBlock(<<>>) >>),
      JsonLine(UserLine([kind |-> "other", str |-> <<>>, list |-> <<>>])),
      Calls(<< TextBlock(<<"h", "i">>) >>) }

\* listing the prompts of logs made of these records; no checkpoints
NextRecords ==
    \/ AppendLine(RecordKinds, MaxRecords)
    \/ LoadPrompts

SpecRecords == InitScenario /\ [][NextRecords]_vars

\* text without its leading and trailing whitespace
Trimmed(text) ==
    LET inked == { i \in 1..Len(text) : text[i] \notin Whitespace }
    IN  IF inked = {} THEN <<>>
        ELSE SubSeq(text, CHOOSE i \in inked : \A j \in inked : i <= j,
                          CHOOSE i \in inked : \A j \in inked : j <= i)

HasPrefix(text, prefix) ==
    Len(prefix) <= Len(text) /\ SubSeq(text, 1, Len(prefix)) = prefix

\* the texts of the text blocks with one space between neighbours
RECURSIVE SpacedTexts(_, _)
SpacedTexts(blocks, sofar) ==
    IF blocks = <<>> THEN sofar.text
    ELSE IF Head(blocks).type # "text" THEN SpacedTexts(Tail(blocks), sofar)
    ELSE SpacedTexts(Tail(blocks),
                     [some |-> TRUE,
                      text |-> IF sofar.some THEN sofar.text \o <<" ">> \o Head(blocks).text
                               ELSE Head(blocks).text])

\* the text of a record as the claim describes it
ExtractedText(obj) ==
    IF obj.message.content.kind = "str" THEN obj.message.content.str
    ELSE IF obj.message.content.kind = "list"
         THEN SpacedTexts(obj.message.content.list, [some |-> FALSE, text |-> <<>>])
    ELSE <<>>

InjectedPrefixes ==
    { RequestInterrupted,
      <<"<","c","o","m","m","a","n","d","-","m","e","s","s","a","g","e",">">>,
      CommandName,
      <<"<","t","a","s","k","-","n","o","t","i","f","i","c","a","t","i","o","n",">">>,
      SystemReminder }

\* user-typed, text not empty after trimming, none of the prefixes at the
\* start of the trimmed text
IsAnchor(obj) ==
    /\ obj.type = "user"
    /\ Trimmed(ExtractedText(obj)) # <<>>
    /\ \A prefix \in InjectedPrefixes : ~HasPrefix(Trimmed(ExtractedText(obj)), prefix)

AnchorSet == { i \in 0..(Len(Lines) - 1) : IsAnchor(Lines[i + 1]) }

\* the n-th anchor position in log order, n = 1, 2, ...
NthAnchor(n) == CHOOSE i \in AnchorSet : Cardinality({ j \in AnchorSet : j <= i }) = n

\* C22: a record anchors a window iff it is user-typed and its text (string
\* content, or the text blocks joined by single spaces) is non-empty after
\* trimming and, trimmed, starts with none of the injected-notice prefixes;
\* the listing has one window per anchor, in log order, ending at the next
\* anchor's position, or at the length of the log for the last one.
C22_AnchorsAndWindows ==
    IsPrompts =>
        /\ result.outcome = "ok"
        /\ Len(result.prompts) = Cardinality(AnchorSet)
        /\ \A n \in 1..Len(result.prompts) :
              /\ result.prompts[n].prompt_index = n - 1
              /\ result.prompts[n].line_i = NthAnchor(n)
              /\ result.prompts[n].prompt_text = ExtractedText(Lines[NthAnchor(n) + 1])
              /\ result.prompts[n].next_line =
                    IF n < Len(result.prompts) THEN NthAnchor(n + 1) ELSE Len(Lines)

\* a prefix behind leading whitespace, between a prompt made of text blocks
\* and a prompt with a prefix inside its text: two windows
C22_Witness ==
    /\ IsPrompts
    /\ jsonl[SessionId] =
          << UserBlocks(<< TextBlock(<<"h", "i">>), ToolResult, TextBlock(<<"y", "o">>) >>),
             Prompt(<<" ">> \o CommandName),
             Prompt(<<"x">> \o CommandName) >>
    /\ Len(result.prompts) = 2
    /\ result.prompts[1].prompt_text = <<"h", "i", " ", "y", "o">>
    /\ result.prompts[1].next_line = 2

(* ------------------------------ C23 ------------------------------------ *)
PathDC == <<"/", "d", "/", "c">>

\* the maps open_diff is given: absolute paths, a nested one, empty contents
DiffMaps ==
    UNION { [ks -> {<<>>, <<"x">>}] : ks \in SUBSET {PathA, PathDC} }

\* tempfile.mkdtemp(prefix=...): a directory that did not exist; the element
\* after the second "/" stands for the prefix and the random part
TempDir(prefix, n) == <<"/", "t", "/", prefix, n>>

\* some file of the disk lies under dir
InUse(dir) ==
    \E f \in DOMAIN disk : Len(f) > Len(dir) /\ SubSeq(f, 1, Len(dir)) = dir

\* os.path.join(root, rel)
Join(root, rel) == root \o <<"/">> \o rel

\* mutant: a tree gets files only for the paths of its own map
TreeFiles_OnlyPresent(root, all_paths, files) ==
    [dest \in { Join(root, LStripSlash(filepath)) : filepath \in DOMAIN files } |->
        LET filepath == CHOOSE fp \in DOMAIN files : Join(root, LStripSlash(fp)) = dest
        IN  Get(files, filepath, <<>>)]

\* the files one tree gets: for filepath in all_paths, rel = lstrip("/"),
\* open(join(root, rel), "w").write(files.get(filepath, ""))
TreeFiles(root, all_paths, files) ==
    [dest \in { Join(root, LStripSlash(filepath)) : filepath \in all_paths } |->
        LET filepath == CHOOSE fp \in all_paths : Join(root, LStripSlash(fp)) = dest
        IN  Get(files, filepath, <<>>)]

\* d1 with the files of d2 written over it
Written(d1, d2) ==
    [f \in DOMAIN d1 \cup DOMAIN d2 |-> IF f \in DOMAIN d2 THEN d2[f] ELSE d1[f]]

\* what the GUI holds after open_diff: the maps it was given, whether
\* find_pycharm found the viewer, the message box shown, the Popen calls
Opened(r, pycharm, shown, popen) ==
    [kind |-> "open_diff", before_files |-> r.before_files,
     after_files |-> r.after_files, pycharm |-> pycharm, shown |-> shown,
     popen |-> popen]

\* open_diff(before_files, after_files)
OpenDiff ==
    /\ result.kind \in {"maps", "open_diff"}
    /\ \E pycharm \in BOOLEAN, nb, na \in 1..MaxOpens :
          LET before_dir == TempDir("before", nb)
              after_dir == TempDir("after", na)
              all_paths == DOMAIN result.before_files \cup DOMAIN result.after_files
          IN  IF ~pycharm
              THEN /\ result' = Opened(result, pycharm, "PyCharm not found", <<>>)
                   /\ disk' = disk
              ELSE IF result.before_files = EmptyMap /\ result.after_files = EmptyMap
              THEN /\ result' = Opened(result, pycharm, "No changes", <<>>)
                   /\ disk' = disk
              ELSE /\ ~InUse(before_dir) /\ ~InUse(after_dir)
                   /\ disk' = Written(Written(disk,
                                 TreeFiles(before_dir, all_paths, result.before_files)),
                                 TreeFiles(after_dir, all_paths, result.after_files))
                   /\ result' = Opened(result, pycharm, "",
                                       << <<"pycharm", "diff", before_dir, after_dir>> >>)
    /\ <<result', disk'>> # <<result, disk>>
    /\ UNCHANGED <<jsonl, snapshots, meta, marker, now, hook, orig>>

\* the GUI holds a pair of maps; nothing is on disk
InitOpen ==
    /\ jsonl = [s \in Sessions |-> <<>>]
    /\ snapshots = [s \in Sessions |-> EmptyMap]
    /\ orig = EmptyMap
    /\ meta = EmptyMap
    /\ marker = NoMarker
    /\ now = 0
    /\ hook = [pr \in Procs |-> Idle]
    /\ disk = EmptyMap
    /\ \E b, a \in DiffMaps :
          result = [kind |-> "maps", before_files |-> b, after_files |-> a]

NextOpen == OpenDiff

SpecOpen == InitOpen /\ [][NextOpen]_vars

\* path without its leading separator
Rehomed(path) == SubSeq(path, 2, Len(path))

\* the files under root in d
Under(root, d) ==
    { f \in DOMAIN d : Len(f) > Len(root) /\ SubSeq(f, 1, Len(root)) = root }

\* the step wrote, under a root that had no files, one file per path of
\* paths, holding the map's content, or nothing when the map lacks the path
WroteTree(root, paths, files) ==
    /\ Under(root, disk) = {}
    /\ Under(root, disk') = { root \o <<"/">> \o Rehomed(path) : path \in paths }
    /\ \A path \in paths :
          disk'[root \o <<"/">> \o Rehomed(path)] =
             IF path \in DOMAIN files THEN files[path] ELSE <<>>

\* C23: with a viewer and maps that are not both empty, open_diff writes for
\* every path of either map one file in the before tree and one in the after
\* tree, at the path without its leading separator, holding the map's content
\* or nothing when the map lacks the path, and starts the viewer once on the
\* two roots; without a viewer, or with two empty maps, it reports that,
\* writes nothing and starts nothing.
C23_OpenDiffWritesBothTrees ==
    [][ result'.kind = "open_diff" =>
          LET b == result'.before_files
              a == result'.after_files
              paths == DOMAIN b \cup DOMAIN a
          IN  IF result'.pycharm /\ paths # {}
              THEN /\ result'.shown = ""
                   /\ Len(result'.popen) = 1
                   /\ result'.popen[1][1] = "pycharm" /\ result'.popen[1][2] = "diff"
                   /\ result'.popen[1][3] # result'.popen[1][4]
                   /\ WroteTree(result'.popen[1][3], paths, b)
                   /\ WroteTree(result'.popen[1][4], paths, a)
                   /\ \A f \in DOMAIN disk : f \in DOMAIN disk' /\ disk'[f] = disk[f]
                   /\ Cardinality(DOMAIN disk' \ DOMAIN disk) = 2 * Cardinality(paths)
              ELSE /\ result'.shown = IF result'.pycharm THEN "No changes"
                                      ELSE "PyCharm not found"
                   /\ result'.popen = <<>>
                   /\ disk' = disk ]_vars

\* the second opening of maps with a path that only the before map has: the
\* after tree holds an empty file for it, beside the trees of the first opening
C23_Witness ==
    /\ result.kind = "open_diff"
    /\ Len(result.popen) = 1
    /\ PathDC \in DOMAIN result.before_files
    /\ PathDC \notin DOMAIN result.after_files
    /\ result.before_files[PathDC] = <<"x">>
    /\ disk[result.popen[1][3] \o PathDC] = <<"x">>
    /\ disk[result.popen[1][4] \o PathDC] = <<>>
    /\ Cardinality(DOMAIN disk) > 2 * Cardinality(DOMAIN result.before_files
                                                   \cup DOMAIN result.after_files)

(* ------------------------------ setup.py ------------------------------- *)
\* Paths and commands are sequences of words here; "x in command" is
\* membership of the word.
SettingsPath == <<"~", "/", ".claude", "/", "settings.json">>

CommandPath(name) == <<"~", "/", ".claude", "/", "commands", "/", name, ".md">>

\* get_hook_command(), for the directory the script lies in
HookCommand(dir) == <<"python3", " ", dir, "/", "hook_snapshot.py">>

OtherCommand == <<"sh", " ", "lint.sh">>

Group(matcher, hooks) == [matcher |-> matcher, has_hooks |-> TRUE, hooks |-> hooks]

CommandHook(command) == [type |-> "command", command |-> command]

\* a matcher group that settings.json may hold before setup runs
OwnGroup(dir) == Group("Write|Edit", << CommandHook(HookCommand(dir)) >>)

OtherGroup == Group("Bash", << CommandHook(OtherCommand) >>)

BareGroup == [matcher |-> "Read", has_hooks |-> FALSE, hooks |-> <<>>]

\* the settings object: whether it has keys of its own, whether "hooks" and
\* hooks["PreToolUse"] are present, and the PreToolUse list
EmptySettings ==
    [other |-> FALSE, has_hooks |-> FALSE, has_pre |-> FALSE, pre |-> <<>>]

\* the content of settings.json: the object and the layout of the text
SettingsFile(format, settings) == << [format |-> format, settings |-> settings] >>

\* the text of a command file as install_slash_commands writes it
CommandText(name) == <<"launch", " ", name>>

CustomText == <<"my", " ", "own", " ", "command">>

\* mutant: the loop never finds the hook
HookExists_Never(pre_tool_use) == FALSE

\* the loop at the top of main: some hook of some group has
\* "hook_snapshot.py" in its command
HookExists(pre_tool_use) ==
    \E g \in 1..Len(pre_tool_use) :
        \E h \in 1..Len(pre_tool_use[g].hooks) :
            \E w \in 1..Len(pre_tool_use[g].hooks[h].command) :
                pre_tool_use[g].hooks[h].command[w] = "hook_snapshot.py"

\* _install_command: the files after the call
_install_command(files, name) ==
    IF CommandPath(name) \in DOMAIN files THEN files
    ELSE Put(files, CommandPath(name), CommandText(name))

\* main of setup.py, run from the directory "here"
SetupMain ==
    LET found == SettingsPath \in DOMAIN disk
        settings == IF found THEN disk[SettingsPath][1].settings ELSE EmptySettings
        pre_tool_use == IF settings.has_hooks /\ settings.has_pre THEN settings.pre
                        ELSE <<>>
        hook_exists == HookExists(pre_tool_use)
        added == [settings EXCEPT !.has_hooks = TRUE, !.has_pre = TRUE,
                                  !.pre = Append(pre_tool_use, OwnGroup("here"))]
        files1 == IF hook_exists THEN disk
                  ELSE Put(disk, SettingsPath, SettingsFile("indent2", added))
        files3 == _install_command(_install_command(files1, "history"), "last")
        runs == IF result.kind = "setup" THEN result.runs ELSE 0
    IN  /\ runs < MaxRuns
        /\ disk' = files3
        /\ result' = [kind |-> "setup", runs |-> runs + 1,
                      printed |-> << IF hook_exists
                                     THEN "Hook already configured - skipping."
                                     ELSE "Hook added successfully." >>]
        /\ UNCHANGED <<jsonl, snapshots, meta, marker, now, hook, orig>>

\* the PreToolUse lists setup may find: up to two groups, at most one of
\* them for hook_snapshot.py, installed from this directory or another
FoundLists ==
    LET groups == {OwnGroup("here"), OwnGroup("old"), OtherGroup, BareGroup}
        lists == {<<>>} \cup { <<g>> : g \in groups }
                        \cup { <<g, h>> : g \in groups, h \in groups }
        own(l) == { n \in 1..Len(l) : HookExists(<<l[n]>>) }
    IN  { l \in lists : Cardinality(own(l)) <= 1 }

\* the settings.json files setup may find
FoundSettings ==
    { SettingsFile(format, [other |-> other, has_hooks |-> has_hooks,
                            has_pre |-> has_pre, pre |-> pre]) :
        format \in {"compact", "indent2"}, other \in BOOLEAN,
        has_hooks \in BOOLEAN, has_pre \in BOOLEAN, pre \in FoundLists }

\* valid settings: a list only under a present key
ValidSettings ==
    { f \in FoundSettings :
        /\ f[1].settings.has_pre => f[1].settings.has_hooks
        /\ ~f[1].settings.has_pre => f[1].settings.pre = <<>> }

\* ~/.claude before the first run: settings.json absent or valid, each
\* command file absent, the user's own, or from an earlier install
InitSetup ==
    /\ jsonl = [s \in Sessions |-> <<>>]
    /\ snapshots = [s \in Sessions |-> EmptyMap]
    /\ orig = EmptyMap
    /\ meta = EmptyMap
    /\ marker = NoMarker
    /\ now = 0
    /\ hook = [pr \in Procs |-> Idle]
    /\ result = NoResult
    /\ \E present \in SUBSET {SettingsPath, CommandPath("history"), CommandPath("last")} :
          \E sf \in ValidSettings, th, tl \in {0, 1} :
              disk = [f \in present |->
                        IF f = SettingsPath THEN sf
                        ELSE IF f = CommandPath("history")
                             THEN (IF th = 0 THEN CustomText ELSE CommandText("history"))
                             ELSE (IF tl = 0 THEN CustomText ELSE CommandText("last"))]

NextSetup == SetupMain

SpecSetup == InitSetup /\ [][NextSetup]_vars

(* ------------------------------ C24 ------------------------------------ *)
\* the hooks of the PreToolUse list of settings.json that name hook_snapshot.py
OwnEntries(files) ==
    LET pre == files[SettingsPath][1].settings.pre
    IN  UNION { { <<g, h>> : h \in { n \in 1..Len(pre[g].hooks) :
                                       \E w \in 1..Len(pre[g].hooks[n].command) :
                                          pre[g].hooks[n].command[w] = "hook_snapshot.py" } } :
                g \in 1..Len(pre) }

CommandPaths == {CommandPath("history"), CommandPath("last")}

\* C24: setup is idempotent: after a run settings.json holds exactly one
\* PreToolUse hook entry for hook_snapshot.py and the command files that
\* existed are as they were; a run after the first changes nothing, so the
\* state after n >= 1 runs is the state after one run.
C24_SetupIsIdempotent ==
    [][ result'.kind = "setup" =>
           /\ SettingsPath \in DOMAIN disk'
           /\ Cardinality(OwnEntries(disk')) = 1
           /\ \A f \in CommandPaths \cap DOMAIN disk : disk'[f] = disk[f]
           /\ CommandPaths \subseteq DOMAIN disk'
           /\ result.kind = "setup" => disk' = disk ]_vars

\* the third run over settings that had another tool's group, a command file
\* of the user's own and no /last command: one entry added, /last installed
C24_Witness ==
    /\ result.kind = "setup"
    /\ result.runs = MaxRuns
    /\ result.printed = << "Hook already configured - skipping." >>
    /\ disk[SettingsPath][1].settings.pre = << OtherGroup, OwnGroup("here") >>
    /\ disk[SettingsPath][1].settings.other
    /\ disk[CommandPath("history")] = CustomText
    /\ disk[CommandPath("last")] = CommandText("last")

(* ------------------------------ C25 ------------------------------------ *)
\* what the GUI holds after on_activate: the row's prompt, the message box
\* shown ("" if none) and the maps handed to open_diff
Activated(prompt, shown, ret) ==
    [kind |-> "activate", prompt |-> prompt, shown |-> shown, ret |-> ret]

\* ReviewApp.on_activate on a row of the listing
OnActivate ==
    /\ result.kind = "prompts"
    /\ \E n \in 1..Len(result.prompts) :
          LET prompt == result.prompts[n]
              ret == _reconstruct_prompt_diff(jsonl[SessionId], snapshots[SessionId],
                                              prompt.prompt_index)
          IN  result' =
                 IF prompt.files_edited = <<>>
                 THEN Activated(prompt, "No file edits", Returned("ok", EmptyMap, EmptyMap))
                 ELSE IF ret.before_files = EmptyMap /\ ret.after_files = EmptyMap
                 THEN Activated(prompt, "Cannot reconstruct", ret)
                 ELSE Activated(prompt, "", ret)
    /\ UNCHANGED <<jsonl, snapshots, meta, marker, disk, now, hook, orig>>

\* the records of the logs that are listed and activated
ActivateLines == ReplayLines \ {BadLine}

NextActivate ==
    \/ AppendLine(ActivateLines, MaxLines)
    \/ LoadPrompts
    \/ OnActivate

SpecActivate == Init /\ [][NextActivate]_vars

\* the elements of a list
Range(list) == { list[n] : n \in 1..Len(list) }

\* C25: the listing and the reconstruction agree: for every listed prompt the
\* paths of files_edited are the keys of before and the keys of after that
\* the reconstruction of its index returns, under every checkpoint set; so
\* activating a prompt listed with file edits never ends in two empty maps.
C25_AttributionsAgree ==
    /\ IsPrompts =>
          \A n \in 1..Len(result.prompts) :
              LET ret == _reconstruct_prompt_diff(jsonl[SessionId], snapshots[SessionId],
                                                  result.prompts[n].prompt_index)
              IN  /\ ret.outcome = "ok"
                  /\ DOMAIN ret.before_files = Range(result.prompts[n].files_edited)
                  /\ DOMAIN ret.after_files = Range(result.prompts[n].files_edited)
    /\ result.kind = "activate" =>
          /\ result.shown # "Cannot reconstruct"
          /\ DOMAIN result.ret.before_files = Range(result.prompt.files_edited)
          /\ DOMAIN result.ret.after_files = Range(result.prompt.files_edited)

\* the first of two prompts activated, listed with both paths, the next
\* window touching a path too: maps with exactly the listed paths go to open_diff
C25_Witness ==
    /\ result.kind = "activate"
    /\ result.shown = ""
    /\ result.prompt.prompt_index = 0
    /\ result.prompt.next_line < Len(Lines)
    /\ Range(result.prompt.files_edited) = {PathA, PathB}
    /\ DOMAIN result.ret.after_files = {PathA, PathB}
    /\ \E j \in 1..Len(ToolCalls) :
          /\ ToolCalls[j].tc_line >= result.prompt.next_line
          /\ ToolCalls[j].tc_input.file_path # <<>>

(* ------------------------------ C26 ------------------------------------ *)
\* calls of every kind the hook returns early for, and calls it stores
FrameCalls ==
    SeqCalls \cup
    { ToolUse("Write", WriteInput(<<>>, <<"y">>)),
      ToolUse("Edit", EditInput(<<"a">>, <<"x">>, <<"y">>, FALSE)) }

NextFrame ==
    \/ HookInvoke({1}, Sessions, FrameCalls)
    \/ HookMain({1})
    \/ HookCheckDest({1})
    \/ HookCopy({1})
    \/ HookCheckMeta({1})
    \/ HookWriteMeta({1})
    \/ HookCleanup({1})
    \/ ToolRun({1})
    \/ Tick(SeqInstants)

SpecFrame == InitSeq /\ [][NextFrame]_vars

\* the call of process pr is one the hook has nothing to store for
NothingToStore(pr) ==
    LET h == hook[pr]
        path == h.tool_input.file_path
    IN  \/ h.tool_name \notin {"Write", "Edit"}
        \/ path = <<>>
        \/ path[1] # "/"
        \/ path \notin DOMAIN disk
        \/ SubSeq(path, 2, Len(path)) \in DOMAIN snapshots[h.session_id]

\* C26: an invocation for a tool other than Write and Edit, for an empty or
\* relative path, for a file that does not exist, or for a path whose
\* checkpoint the session already has, returns and leaves the store as it
\* was: no checkpoint, no meta.json, no cleanup.
C26_EarlyReturnLeavesStore ==
    [][ \A pr \in Procs :
           (hook[pr].pc \in {"main", "check_dest"} /\ NothingToStore(pr)) =>
              /\ snapshots' = snapshots
              /\ meta' = meta
              /\ marker' = marker
              /\ hook'[pr].pc \in {"check_dest", "exit"} ]_vars

\* a hook that has returned for an Edit of a relative path, in a session that
\* has a checkpoint from an earlier call, with a cleanup due
C26_Witness ==
    /\ hook[1].pc = "exit"
    /\ hook[1].tool_name = "Edit"
    /\ hook[1].tool_input.file_path = <<"a">>
    /\ snapshots[hook[1].session_id] # EmptyMap
    /\ now - marker >= CLEANUP_INTERVAL

====
